---- MODULE Spec2Model ----
(***************************************************************************)
(* Process supervisor of damonweiss/deploy_flask_react.                    *)
(*                                                                         *)
(* The repository generates three families of start_server.py /            *)
(* stop_servers.py scripts:                                                *)
(*   "v2"       python_env_bootloader.write_start_stop_scripts             *)
(*              (registry: .pids.json, keys flask_pid / vite_pid)          *)
(*   "combined" vite_bootloader.write_combined_start_stop                  *)
(*              (registry: .vela-run/flask.pid, .vela-run/vite.pid)        *)
(*   "unified"  folder_bootloader.write_unified_scripts                    *)
(*              (registry: .pids/flask.pid, .pids/vite.pid)                *)
(* and one in-process supervisor, vite_flask_bootloader.FlaskViteBootloader*)
(* ("fvb").  One orchestrator run (start or stop) is active at a time; the *)
(* operating system (process exit, PID reuse, kill of the orchestrator)    *)
(* interleaves with every step of a run.                                   *)
(***************************************************************************)
EXTENDS Integers, Sequences, FiniteSets, TLC

\* ------------------------------------------------------------------ bounds
\* Number of PIDs the operating system hands out.
MaxPid == 2
\* Smallest PID handed out (so that PIDs of one and of two digits occur).
PidBase == 9
\* Number of environment-creation commands run on one root, which bounds the
\* installer runs.
MaxCreate == 2
\* Number of lines of a requirements.txt the installer finds.
MaxReqLines == 2
\* Must-have packages that fail to import in one environment, at most.
MaxBroken == 2
\* Files the user has put under the root before the first run, at most.
MaxUserFiles == 1
\* Segments of the handle VELA_CORE_DIR, at most.
MaxSegments == 5

\* --------------------------------------------------------- program constants
\* range(20) in _start_flask, range(30) in _start_vite, range(10) in the
\* combined script: the cap of output lines read back from a child.
V2FlaskLines == 20
V2ViteLines == 30
CombinedLines == 10
\* _wait_health: timeout=25 s, urlopen(timeout=3) s, time.sleep(0.5) s,
\* all counted in ticks of half a second.
HealthTimeout == 50
UrlopenTimeout == 6
SleepTicks == 1

PIDs == PidBase .. (PidBase + MaxPid - 1)
Names == {"backend", "frontend"}
NoPid == 0

\* ------------------------------------------------------------- conversions
\* str(pid): the decimal digits of a positive integer.
RECURSIVE Str(_)
Str(n) == IF n < 10 THEN <<n>> ELSE Append(Str(n \div 10), n % 10)

\* int(text.strip()): the number a digit string denotes; NoPid stands for the
\* ValueError branch (empty text), in which the scripts bind None.
RECURSIVE ParseInt(_)
ParseInt(s) == IF Len(s) = 0 THEN NoPid
               ELSE IF Len(s) = 1 THEN s[1]
               ELSE 10 * ParseInt(SubSeq(s, 1, Len(s) - 1)) + s[Len(s)]

\* A Python dict is an insertion-ordered sequence of <<key, value>> pairs.
DictHas(P, k) == \E i \in 1..Len(P) : P[i][1] = k
DictGet(P, k) == IF DictHas(P, k)
                 THEN P[CHOOSE i \in 1..Len(P) : P[i][1] = k][2]
                 ELSE NoPid
DictSet(P, k, v) == IF DictHas(P, k)
                    THEN [i \in 1..Len(P) |-> IF P[i][1] = k THEN <<k, v>> ELSE P[i]]
                    ELSE Append(P, <<k, v>>)
DictPop(P, k) == SelectSeq(P, LAMBDA e : e[1] # k)

\* json.dumps / json.loads of a {key: int} object: the text is the member
\* list with every number in decimal digits.
Dumps(P) == [i \in 1..Len(P) |-> <<P[i][1], Str(P[i][2])>>]
Loads(t) == [i \in 1..Len(t) |-> <<t[i][1], ParseInt(t[i][2])>>]

\* The elements of a sequence.
Range(seq) == {seq[i] : i \in 1..Len(seq)}

\* A file: absent, or present with a text.
Absent == [exists |-> FALSE, text |-> <<>>]
File(t) == [exists |-> TRUE, text |-> t]

\* ------------------------------------------------------------------- state
VARIABLES
    variant,      \* the supervisor in use: the family of the installed
                  \* start_server.py / stop_servers.py, or "fvb"
    osName,       \* os.name of the host: "posix" or "nt"
    proc,         \* OS process table: PID -> "none", "foreign" (a process of
                  \* another user) or the logical name it was spawned for
    pidsJson,     \* the file .pids.json
    runDir,       \* the files .vela-run/flask.pid (backend), vite.pid (frontend)
    pidDir,       \* the files .pids/flask.pid (backend), vite.pid (frontend)
    fvbPidDir,    \* the files <pid_dir>/backend.pid, <pid_dir>/frontend.pid
    fvbProcesses, \* FlaskViteBootloader.processes of the instance of this run
    op,           \* the orchestrator run: "none", "start" or "stop"
    pc,           \* its position
    args,         \* its command line flags
    child,        \* the Popen object of the function being executed (its pid)
    cur,          \* the logical name that function handles
    lines,        \* output lines of child consumed so far
    clock,        \* time.time() - t0 of _wait_health, in ticks
    P,            \* the dict the run holds in memory
    idx,          \* loop index of stop
    exit,         \* exit code of the run, -1 while it runs
    h             \* history of the run, for stating properties:
                  \*   spawned    name -> pid this run spawned
                  \*   ret        name -> pid this run reported
                  \*   outcome    name -> how this run dealt with the name
                  \*   polled     this run has probed the backend health endpoint
                  \*   manifest   frontend/package.json as start found it: "absent",
                  \*              "present", or "unseen" before the frontend step
                  \*   installRan npm ci / npm install was run
                  \*   sig        terminations issued, <<name, pid>>, in order
                  \*   log        messages printed, <<text, name>>
                  \*   regAtCall  name -> pid registered when stop was called
                  \*   liveAtCall name -> pid registered and reported alive when
                  \*              the run was called, not exited by itself since
                  \*   stale      names whose registered pid this run found dead
                  \*   wrote      names whose registry entry this run wrote

\* The deployment: deploy.py (the pipeline of Step 1, 2, 3) and Step 2, the
\* dependency installer python_env_bootloader.py --deploy.
VARIABLES
    uv,           \* shutil.which("uv") finds the external tool on this host
    python_exe,   \* the interpreter path backend/.venv/bin/python exists
    reqs,         \* the file backend/requirements.txt
    created,      \* environment-creation commands run on this root so far
    ipc,          \* position of the installer run, "idle" when none
    irc,          \* its return code, -1 while it runs
    ih,           \* history of the installer run:
                  \*   cmds       the commands it ran, in order
                  \*   cause      why it ended: "none" (success), "venv", "pip",
                  \*              "install", "verify" or "interrupt"
                  \*   venvAtCall the interpreter path existed when it was called
                  \*   before     requirements.txt as it found it
                  \*   nopip      pip was still unavailable after ensurepip
                  \*   exits      the commands install_requirements ran, each with
                  \*              its exit code
    dpc,          \* position of the deploy.py run, "idle" when none
    dargs,        \* its flags, and the step scripts have_file finds
    dexit,        \* its exit code, -1 while it runs
    dh,           \* history of the deploy.py run:
                  \*   started    the steps whose subprocess was started, in order
                  \*   returned   the steps whose subprocess.run has returned
                  \*   failed     the steps whose subprocess.run raised
                  \*   captured   step -> streams the subprocess wrote to
                  \*   logged     <<step, stream>> written to the log
                  \*   warned     steps a warning was printed for
                  \*   complete   "DEPLOYMENT COMPLETE" was printed
                  \*   cause      why the run ended: "none", "requirements",
                  \*              "files", "step1" or "interrupt"
    codes         \* exit codes seen so far: <<program, cause, code>>

\* The files of the working root that the programs of the repository
\* materialize, besides backend/requirements.txt.
VARIABLES
    pyproject,    \* the file pyproject.toml: whether it exists and its
                  \* project.dependencies
    tree,         \* the scaffold files: path -> "absent", or who wrote the
                  \* content: "user", "folder" (Step 1), "env" (Step 2),
                  \* "vite" (Step 3); of start_server.py / stop_servers.py:
                  \* "unified", "v2", "combined"
    dirs,         \* the directories that exist under the root
    flaskPid,     \* the file backend/flask.pid
    fh            \* history of folder_bootloader.py --deploy on this root:
                  \*   runs     "none", "one" or "more" runs so far
                  \*   wrote    paths the last run created: by the folder
                  \*            loop, _create_basic_files, write_unified_scripts
                  \*   ret      the lists these three returned

\* The deployment root: the handle VELA_CORE_DIR and what each step makes of it.
VARIABLES
    core_dir,     \* os.environ.get("VELA_CORE_DIR"): unset, or a path
    cwd,          \* Path.cwd(), the segments of an absolute path
    roots         \* step -> the root its resolver returned, as a directory
                  \* (segments of the absolute path), or unresolved

\* Invocations of the V2 start_server.py / stop_servers.py that run at the
\* same time on one root, each an orchestrator process of its own.
VARIABLES
    inv,          \* invocation -> its state: pc, op ("start" / "stop"), flags,
                  \* cur (the name being handled), child (p.pid), P (the dict
                  \* it holds in memory), idx (loop index of stop), and
                  \* spawned (name -> pid it spawned)
    overlap       \* an invocation began while another was running

\* The health-monitor thread of a FlaskViteBootloader and what it shares with
\* the main thread.
VARIABLES
    monitor       \* pc        position of the thread ("none": not started)
                  \* running   self.running
                  \* size      len(self.processes) when the loop of stop began
                  \* returned  stop() has returned
                  \* late      a service was started after stop() returned

\* The construction of a FolderBootloader or a PillarBootloader.
VARIABLES
    configs,      \* path -> the configuration file at that path
    boot          \* the constructor being run:
                  \*   loader  "folder", "pillar", or "none"
                  \*   pc      its position
                  \*   path    self.config_path
                  \*   logger  the logger _load_config uses exists
                  \*   config  self.config: "none", "default" or "loaded"
                  \*   error   the exception that left the constructor
                  \*   log     the messages logged

host == <<variant, osName>>
files == <<pidsJson, runDir, pidDir, fvbPidDir>>
locals == <<child, cur, lines, clock, P, idx>>
supervisor == <<variant, osName, proc, pidsJson, runDir, pidDir, fvbPidDir,
                fvbProcesses, op, pc, args, child, cur, lines, clock, P, idx, exit, h>>
installer == <<python_exe, reqs, created, ipc, irc, ih>>
deployer == <<dpc, dargs, dexit, dh>>
scaffold == <<tree, dirs, fh>>
resolution == <<core_dir, cwd, roots>>
race == <<inv, overlap>>
construction == <<configs, boot>>
rootFiles == <<pyproject, scaffold, resolution, flaskPid, race, monitor, construction>>
deployment == <<uv, installer, deployer, codes, rootFiles>>
vars == <<supervisor, deployment>>

Rest == {"idle", "done", "failed", "killed"}
\* The flags of start_server.py (V2) and the "deployment" switches of
\* bootloader_config.json that FlaskViteBootloader reads.
NoArgs == [flask_only |-> FALSE, vite_only |-> FALSE,
           health_check_enabled |-> FALSE, restart_on_failure |-> FALSE]
None == [n \in Names |-> NoPid]

\* -------------------------------------------------------- operating system
\* _pid_alive / pid_alive: tasklist lists every process of the host; os.kill(pid, 0)
\* raises ProcessLookupError for no process and PermissionError for a process of
\* another user, and both are caught as "not alive".
PidAlive(pid) == IF osName = "nt" THEN proc[pid] # "none"
                 ELSE proc[pid] \in Names

\* The exception os.kill(pid, SIGTERM) raises ("none": it returns); taskkill is
\* run through subprocess.run / os.system without check and raises nothing.
KillError(pid) == IF osName = "nt" THEN "none"
                  ELSE IF proc[pid] = "none" THEN "ProcessLookupError"
                  ELSE IF proc[pid] = "foreign" THEN "PermissionError"
                  ELSE "none"

\* The process table after a termination was issued for pid.
Killed(pid) == IF proc[pid] \in Names THEN [proc EXCEPT ![pid] = "none"] ELSE proc

\* subprocess.Popen: a new process with a PID that is free.
Popen(name, pid) == /\ proc[pid] = "none"
                    /\ proc' = [proc EXCEPT ![pid] = name]
                    /\ child' = pid

\* ----------------------------------------------------------------- registry
\* The key of .pids.json for a logical name.
Key(n) == IF n = "backend" THEN "flask_pid" ELSE "vite_pid"

\* int(pid_file.read_text().strip()) of a pid file, NoPid when there is none.
ReadFile(f) == IF f.exists THEN ParseInt(f.text) ELSE NoPid

\* The PID recorded for name n where the supervisor in use keeps it.
Registry(n) ==
    IF variant = "v2"
    THEN (IF pidsJson.exists THEN DictGet(Loads(pidsJson.text), Key(n)) ELSE NoPid)
    ELSE IF variant = "combined" THEN ReadFile(runDir[n])
    ELSE IF variant = "unified" THEN ReadFile(pidDir[n])
    ELSE ReadFile(fvbPidDir[n])

\* ------------------------------------------------------------ run framework
NoHistory ==
    [spawned |-> None, ret |-> None, outcome |-> [n \in Names |-> "none"],
     polled |-> FALSE,
     manifest |-> "unseen", installRan |-> FALSE, sig |-> <<>>, log |-> {},
     regAtCall |-> None, liveAtCall |-> None, stale |-> {}, wrote |-> {}]

NewHistory(o) ==
    [spawned |-> None, ret |-> None, outcome |-> [n \in Names |-> "none"],
     polled |-> FALSE,
     manifest |-> "unseen", installRan |-> FALSE, sig |-> <<>>, log |-> {},
     regAtCall |-> [n \in Names |-> IF o = "stop" THEN Registry(n) ELSE NoPid],
     liveAtCall |-> [n \in Names |-> IF Registry(n) # NoPid /\ PidAlive(Registry(n))
                                     THEN Registry(n) ELSE NoPid],
     stale |-> {}, wrote |-> {}]

\* A new orchestrator process: fresh memory, history of the run reset.
Begin(o, first, a, dict) ==
    /\ pc = "idle"
    /\ op' = o /\ pc' = first /\ args' = a
    /\ child' = NoPid /\ cur' = "none" /\ lines' = 0 /\ clock' = 0
    /\ P' = dict /\ idx' = 1 /\ exit' = -1
    /\ fvbProcesses' = <<>>
    /\ h' = NewHistory(o)

\* The run moves on inside a function.
Goto(next) ==
    /\ pc' = next
    /\ UNCHANGED <<child, cur, lines, clock, P, idx, exit>>

\* A function of the run returns: its locals go out of scope.
Return(next) ==
    /\ pc' = next
    /\ child' = NoPid /\ cur' = "none" /\ lines' = 0 /\ clock' = 0
    /\ UNCHANGED <<P, idx, exit>>

\* The run ends with an exit code.
Finish(code) ==
    /\ pc' = IF code = 0 THEN "done" ELSE "failed"
    /\ exit' = code
    /\ child' = NoPid /\ cur' = "none" /\ lines' = 0 /\ clock' = 0
    /\ P' = <<>> /\ idx' = 1

\* Messages are <<text, logical name>>, the name "" when none is meant.
Msg(text) == <<text, "">>

\* One readline() of the loop "for _ in range(cap)": a line, or "" at end of
\* file (the child has exited), which leaves the loop; after cap lines the
\* function returns p.pid.
ReadLine(here, cap, next) ==
    /\ pc = here
    /\ \E eof \in BOOLEAN :
          /\ eof => proc[child] # cur
          /\ IF eof \/ lines + 1 = cap
             THEN /\ h' = [h EXCEPT !.ret[cur] = child]
                  /\ Return(next)
             ELSE /\ lines' = lines + 1
                  /\ UNCHANGED <<pc, h, child, cur, clock, P, idx, exit>>
    /\ UNCHANGED <<host, deployment, proc, files, fvbProcesses, op, args>>

\* ------------------------------------------- start_server.py (V2): start()
\* _read_pid without the lookup: nothing is ever found running.
V2ReadPidNone(kind) == NoPid

\* _read_pid: the registered pid, if the file is there, the key is set and the
\* process is reported alive; else None
V2ReadPid(kind) ==
    IF ~pidsJson.exists THEN NoPid
    ELSE LET pid == DictGet(Loads(pidsJson.text), kind)
         IN  IF pid # NoPid /\ PidAlive(pid) THEN pid ELSE NoPid

\* _write_pid that loses the write (the file stays as it was).
V2WritePidLost(kind, pid) == pidsJson

\* _write_pid that writes {kind: pid} alone instead of updating the object read.
V2WritePidAlone(kind, pid) == File(Dumps(DictSet(<<>>, kind, pid)))

\* _write_pid: read the whole file, set one key, write the whole file
V2WritePid(kind, pid) ==
    LET P0 == IF pidsJson.exists THEN Loads(pidsJson.text) ELSE <<>>
    IN  File(Dumps(DictSet(P0, kind, pid)))

\* The registered pid of name n that _read_pid finds dead.
V2Stale(n) == IF V2ReadPid(Key(n)) = NoPid /\ Registry(n) # NoPid THEN {n} ELSE {}

\* main: parse the flags; "if not a.vite_only: _start_flask(); _wait_health()"
V2Main(flask_only, vite_only) ==
    /\ variant = "v2"
    /\ Begin("start", IF vite_only THEN "v2_main_vite" ELSE "v2_flask",
             [NoArgs EXCEPT !.flask_only = flask_only, !.vite_only = vite_only],
             <<>>)
    /\ UNCHANGED <<host, deployment, proc, files>>

\* _start_flask: existing = _read_pid("flask_pid"); if existing: return existing
V2StartFlaskProbe ==
    /\ pc = "v2_flask"
    /\ LET existing == V2ReadPid("flask_pid")
       IN  IF existing # NoPid
           THEN /\ h' = [h EXCEPT !.log = @ \cup {<<"already running", "backend">>},
                                  !.ret["backend"] = existing,
                                  !.outcome["backend"] = "existing"]
                /\ Return("v2_health")
           ELSE /\ h' = [h EXCEPT !.stale = @ \cup V2Stale("backend")]
                /\ pc' = "v2_flask_popen"
                /\ cur' = "backend"
                /\ UNCHANGED <<child, lines, clock, P, idx, exit>>
    /\ UNCHANGED <<host, deployment, proc, files, fvbProcesses, op, args>>

\* _start_flask: p = subprocess.Popen(cmd, **kwargs)
V2StartFlaskPopen ==
    /\ pc = "v2_flask_popen"
    /\ \E pid \in PIDs :
          /\ Popen("backend", pid)
          /\ h' = [h EXCEPT !.spawned["backend"] = pid,
                            !.outcome["backend"] = "spawned"]
    /\ pc' = "v2_flask_write"
    /\ UNCHANGED <<host, deployment, files, fvbProcesses, op, args, cur, lines, clock, P, idx, exit>>

\* _start_flask: _write_pid("flask_pid", p.pid)
V2StartFlaskWrite ==
    /\ pc = "v2_flask_write"
    /\ pidsJson' = V2WritePid("flask_pid", child)
    /\ h' = [h EXCEPT !.wrote = @ \cup {"backend"}]
    /\ Goto("v2_flask_read")
    /\ UNCHANGED <<host, deployment, proc, runDir, pidDir, fvbPidDir, fvbProcesses, op, args>>

\* _start_flask: the read-back loop, range(20)
V2StartFlaskRead == ReadLine("v2_flask_read", V2FlaskLines, "v2_health")

\* Something answers GET /api/health with 2xx only while a backend is alive.
BackendServing == \E p \in PIDs : proc[p] = "backend"

\* A poll loop without deadline ("while True").
V2PollForever(t) == TRUE

\* _wait_health: the loop condition "time.time() - t0 < timeout"
V2PollOpen(t) == t < HealthTimeout

\* The time urlopen(url, timeout=3) takes: it is answered or refused at once,
\* or it runs into its timeout. (Every time in between is a time the poll
\* reaches by way of its sleeps, so the clock takes the same values.)
ProbeTicks == {0, UrlopenTimeout}

\* _wait_health: one turn of "while time.time() - t0 < timeout": a probe that
\* takes d ticks (at most the urlopen timeout) and returns True on 2xx, else
\* time.sleep(0.5); once the timeout has elapsed the function returns False.
\* clock keeps the time at which the function returned until main goes on.
V2WaitHealth ==
    /\ pc = "v2_health"
    /\ IF V2PollOpen(clock)
       THEN \E d \in ProbeTicks, ok \in BOOLEAN :
               /\ ok => BackendServing
               /\ h' = [h EXCEPT !.polled = TRUE]
               /\ IF ok
                  THEN /\ clock' = clock + d
                       /\ pc' = "v2_main_vite"
                  ELSE /\ clock' = clock + d + SleepTicks
                       /\ UNCHANGED pc
       ELSE /\ pc' = "v2_main_vite"
            /\ UNCHANGED <<clock, h>>
    /\ UNCHANGED <<host, deployment, proc, files, fvbProcesses, op, args, child, cur, lines, P,
                   idx, exit>>

\* main: "if not a.flask_only: _start_vite()"; else print Done, return 0
V2MainVite ==
    /\ pc = "v2_main_vite"
    /\ IF ~args.flask_only
       THEN /\ Return("v2_vite")
            /\ UNCHANGED h
       ELSE /\ Finish(0)
            /\ h' = [h EXCEPT !.log = @ \cup {Msg("Done")}]
    /\ UNCHANGED <<host, deployment, proc, files, fvbProcesses, op, args>>

\* _start_vite: existing = _read_pid("vite_pid"); if existing: return existing
V2StartViteProbe ==
    /\ pc = "v2_vite"
    /\ LET existing == V2ReadPid("vite_pid")
       IN  IF existing # NoPid
           THEN /\ h' = [h EXCEPT !.log = @ \cup {<<"already running", "frontend">>,
                                                   Msg("Done")},
                                  !.ret["frontend"] = existing,
                                  !.outcome["frontend"] = "existing"]
                /\ Finish(0)
           ELSE /\ h' = [h EXCEPT !.stale = @ \cup V2Stale("frontend")]
                /\ pc' = "v2_vite_npm"
                /\ cur' = "frontend"
                /\ UNCHANGED <<child, lines, clock, P, idx, exit>>
    /\ UNCHANGED <<host, deployment, proc, files, fvbProcesses, op, args>>

\* _npm_install_if_needed without the package.json test.
V2NpmInstallAlways(package_json, node_modules, rc0) ==
    IF node_modules THEN "ready"
    ELSE IF rc0 THEN "installed" ELSE "failed"

\* _npm_install_if_needed: no package.json -> False ("skip"); node_modules
\* exists -> True ("ready"); else npm ci / npm install is run and its exit
\* code decides ("installed" / "failed").
V2NpmInstallIfNeeded(package_json, node_modules, rc0) ==
    IF ~package_json THEN "skip"
    ELSE IF node_modules THEN "ready"
    ELSE IF rc0 THEN "installed" ELSE "failed"

\* _start_vite: npm_cmd = _find_npm(); if not npm_cmd: return None;
\* if not _npm_install_if_needed(npm_cmd): return None
V2StartViteNpm ==
    /\ pc = "v2_vite_npm"
    /\ \E npm \in BOOLEAN, package_json \in BOOLEAN, node_modules \in BOOLEAN,
          rc0 \in BOOLEAN :
          LET r == V2NpmInstallIfNeeded(package_json, node_modules, rc0)
              ran == r \in {"installed", "failed"}
              seen == IF package_json THEN "present" ELSE "absent"
          IN  IF ~npm
              THEN /\ h' = [h EXCEPT !.manifest = seen,
                                     !.outcome["frontend"] = "no npm",
                                     !.log = @ \cup {Msg("npm not found"), Msg("Done")}]
                   /\ Finish(0)
              ELSE IF r \in {"skip", "failed"}
              THEN /\ h' = [h EXCEPT !.manifest = seen,
                                     !.outcome["frontend"] =
                                        IF r = "skip" THEN "no manifest"
                                        ELSE "install failed",
                                     !.installRan = ran,
                                     !.log = @ \cup {Msg("npm install failed"),
                                                     Msg("Done")}]
                   /\ Finish(0)
              ELSE /\ h' = [h EXCEPT !.manifest = seen, !.installRan = ran]
                   /\ Goto("v2_vite_popen")
    /\ UNCHANGED <<host, deployment, proc, files, fvbProcesses, op, args>>

\* _start_vite: p = subprocess.Popen([npm_cmd, "run", "dev"], **kwargs)
V2StartVitePopen ==
    /\ pc = "v2_vite_popen"
    /\ \E pid \in PIDs :
          /\ Popen("frontend", pid)
          /\ h' = [h EXCEPT !.spawned["frontend"] = pid,
                            !.outcome["frontend"] = "spawned"]
    /\ pc' = "v2_vite_write"
    /\ UNCHANGED <<host, deployment, files, fvbProcesses, op, args, cur, lines, clock, P, idx, exit>>

\* _start_vite: _write_pid("vite_pid", p.pid)
V2StartViteWrite ==
    /\ pc = "v2_vite_write"
    /\ pidsJson' = V2WritePid("vite_pid", child)
    /\ h' = [h EXCEPT !.wrote = @ \cup {"frontend"}]
    /\ Goto("v2_vite_read")
    /\ UNCHANGED <<host, deployment, proc, runDir, pidDir, fvbPidDir, fvbProcesses, op, args>>

\* _start_vite: the read-back loop, range(30)
V2StartViteRead == ReadLine("v2_vite_read", V2ViteLines, "v2_main_done")

\* main: print("[start] Done."); return 0
V2MainDone ==
    /\ pc = "v2_main_done"
    /\ Finish(0)
    /\ h' = [h EXCEPT !.log = @ \cup {Msg("Done")}]
    /\ UNCHANGED <<host, deployment, proc, files, fvbProcesses, op, args>>

\* -------------------------------------------- stop_servers.py (V2): stop()
\* The order of "for key in [...]" in __main__.
V2StopOrder == <<"frontend", "backend">>

\* __main__: P = json.loads(PIDF.read_text()) if PIDF.exists() else {}
V2StopLoad ==
    /\ variant = "v2"
    /\ Begin("stop", "v2_stop_loop", NoArgs,
             IF pidsJson.exists THEN Loads(pidsJson.text) ELSE <<>>)
    /\ UNCHANGED <<host, deployment, proc, files>>

\* __main__: one turn of the loop: pid = P.get(key); if pid: _kill(pid);
\* time.sleep(0.5); P.pop(key, None).  _kill swallows every exception.
V2StopKey ==
    /\ pc = "v2_stop_loop"
    /\ idx <= Len(V2StopOrder)
    /\ LET n == V2StopOrder[idx]
           pid == DictGet(P, Key(n))
       IN  IF pid # NoPid
           THEN /\ h' = [h EXCEPT !.log = @ \cup {<<"stopping", n>>},
                                  !.sig = Append(@, <<n, pid>>),
                                  !.outcome[n] = "terminated"]
                /\ proc' = Killed(pid)
                /\ P' = DictPop(P, Key(n))
           ELSE /\ h' = [h EXCEPT !.outcome[n] = "absent"]
                /\ UNCHANGED <<proc, P>>
    /\ idx' = idx + 1
    /\ UNCHANGED <<host, deployment, files, fvbProcesses, op, pc, args, child, cur, lines, clock,
                   exit>>

\* __main__: PIDF.write_text(json.dumps(P)); print("[stop] Done.")
V2StopSave ==
    /\ pc = "v2_stop_loop"
    /\ idx > Len(V2StopOrder)
    /\ pidsJson' = File(Dumps(P))
    /\ h' = [h EXCEPT !.log = @ \cup {Msg("Done")}]
    /\ Finish(0)
    /\ UNCHANGED <<host, deployment, proc, runDir, pidDir, fvbPidDir, fvbProcesses, op, args>>

\* ------------------------------------- start_server.py (combined): start()
\* pid_file.unlink(missing_ok=True) in a directory of pid files
Unlink(dir, n) == [dir EXCEPT ![n] = Absent]

\* main: root = Path(__file__).resolve().parent; fp = start_flask(root)
CbMain ==
    /\ variant = "combined"
    /\ Begin("start", "cb_flask", NoArgs, <<>>)
    /\ UNCHANGED <<host, deployment, proc, files>>

\* start_flask: if pid_file.exists(): old = int(...); "if old and not
\* pid_alive(old): pid_file.unlink()" / "elif old: print(...); return old"
CbStartFlaskProbe ==
    /\ pc = "cb_flask"
    /\ LET old == ReadFile(runDir["backend"])
       IN  IF old # NoPid /\ PidAlive(old)
           THEN /\ h' = [h EXCEPT !.log = @ \cup {<<"already running", "backend">>},
                                  !.ret["backend"] = old,
                                  !.outcome["backend"] = "existing"]
                /\ Return("cb_vite")
                /\ UNCHANGED runDir
           ELSE /\ h' = [h EXCEPT !.stale = @ \cup (IF old # NoPid THEN {"backend"}
                                                    ELSE {})]
                /\ runDir' = IF old # NoPid THEN Unlink(runDir, "backend") ELSE runDir
                /\ pc' = "cb_flask_popen"
                /\ cur' = "backend"
                /\ UNCHANGED <<child, lines, clock, P, idx, exit>>
    /\ UNCHANGED <<host, deployment, proc, pidsJson, pidDir, fvbPidDir, fvbProcesses, op, args>>

\* start_flask: proc = subprocess.Popen(cmd, **kwargs)
CbStartFlaskPopen ==
    /\ pc = "cb_flask_popen"
    /\ \E pid \in PIDs :
          /\ Popen("backend", pid)
          /\ h' = [h EXCEPT !.spawned["backend"] = pid,
                            !.outcome["backend"] = "spawned"]
    /\ pc' = "cb_flask_write"
    /\ UNCHANGED <<host, deployment, files, fvbProcesses, op, args, cur, lines, clock, P, idx, exit>>

\* start_flask: pid_file.write_text(str(proc.pid))
CbStartFlaskWrite ==
    /\ pc = "cb_flask_write"
    /\ runDir' = [runDir EXCEPT !["backend"] = File(Str(child))]
    /\ h' = [h EXCEPT !.wrote = @ \cup {"backend"}]
    /\ Goto("cb_flask_read")
    /\ UNCHANGED <<host, deployment, proc, pidsJson, pidDir, fvbPidDir, fvbProcesses, op, args>>

\* start_flask: the read-back loop, range(10)
CbStartFlaskRead == ReadLine("cb_flask_read", CombinedLines, "cb_vite")

\* start_vite up to the spawn: no package.json -> return None; the pid file
\* as in start_flask; npm_cmd = find_npm(); if not npm_cmd: return None
CbStartViteProbe ==
    /\ pc = "cb_vite"
    /\ \E package_json \in BOOLEAN, npm \in BOOLEAN :
          LET old == ReadFile(runDir["frontend"])
              seen == IF package_json THEN "present" ELSE "absent"
          IN  IF ~package_json
              THEN /\ h' = [h EXCEPT !.manifest = seen,
                                     !.outcome["frontend"] = "no manifest"]
                   /\ Return("cb_main_done")
                   /\ UNCHANGED runDir
              ELSE IF old # NoPid /\ PidAlive(old)
              THEN /\ h' = [h EXCEPT !.manifest = seen,
                                     !.log = @ \cup {<<"already running", "frontend">>},
                                     !.ret["frontend"] = old,
                                     !.outcome["frontend"] = "existing"]
                   /\ Return("cb_main_done")
                   /\ UNCHANGED runDir
              ELSE /\ runDir' = IF old # NoPid THEN Unlink(runDir, "frontend")
                                ELSE runDir
                   /\ IF ~npm
                      THEN /\ h' = [h EXCEPT !.manifest = seen,
                                             !.stale = @ \cup (IF old # NoPid
                                                               THEN {"frontend"} ELSE {}),
                                             !.outcome["frontend"] = "no npm",
                                             !.log = @ \cup {Msg("npm not found")}]
                           /\ Return("cb_main_done")
                      ELSE /\ h' = [h EXCEPT !.manifest = seen,
                                             !.stale = @ \cup (IF old # NoPid
                                                               THEN {"frontend"} ELSE {})]
                           /\ pc' = "cb_vite_popen"
                           /\ cur' = "frontend"
                           /\ UNCHANGED <<child, lines, clock, P, idx, exit>>
    /\ UNCHANGED <<host, deployment, proc, pidsJson, pidDir, fvbPidDir, fvbProcesses, op, args>>

\* start_vite: proc = subprocess.Popen([npm_cmd, "run", "dev"], **kwargs)
CbStartVitePopen ==
    /\ pc = "cb_vite_popen"
    /\ \E pid \in PIDs :
          /\ Popen("frontend", pid)
          /\ h' = [h EXCEPT !.spawned["frontend"] = pid,
                            !.outcome["frontend"] = "spawned"]
    /\ pc' = "cb_vite_write"
    /\ UNCHANGED <<host, deployment, files, fvbProcesses, op, args, cur, lines, clock, P, idx, exit>>

\* start_vite: pid_file.write_text(str(proc.pid))
CbStartViteWrite ==
    /\ pc = "cb_vite_write"
    /\ runDir' = [runDir EXCEPT !["frontend"] = File(Str(child))]
    /\ h' = [h EXCEPT !.wrote = @ \cup {"frontend"}]
    /\ Goto("cb_vite_read")
    /\ UNCHANGED <<host, deployment, proc, pidsJson, pidDir, fvbPidDir, fvbProcesses, op, args>>

\* start_vite: the read-back loop, range(10)
CbStartViteRead == ReadLine("cb_vite_read", CombinedLines, "cb_main_done")

\* main: print("[start] Done."); return 0
CbMainDone ==
    /\ pc = "cb_main_done"
    /\ Finish(0)
    /\ h' = [h EXCEPT !.log = @ \cup {Msg("Done")}]
    /\ UNCHANGED <<host, deployment, proc, files, fvbProcesses, op, args>>

\* -------------------------------------- stop_servers.py (combined): stop()
\* The order of the two stop_pid calls in main.
CbStopOrder == <<"frontend", "backend">>

\* main: root = ...; run_dir = root / ".vela-run"
CbStopMain ==
    /\ variant = "combined"
    /\ Begin("stop", "cb_stop", NoArgs, <<>>)
    /\ UNCHANGED <<host, deployment, proc, files>>

\* stop_pid: no pid file -> message, return; unreadable -> message, unlink,
\* return; else taskkill (nt) or os.kill, of which only ProcessLookupError is
\* caught: any other exception ends the script with a traceback, exit code 1.
CbStopPid ==
    /\ pc = "cb_stop"
    /\ idx <= Len(CbStopOrder)
    /\ LET n == CbStopOrder[idx]
           pid == ReadFile(runDir[n])
       IN  IF ~runDir[n].exists
           THEN /\ h' = [h EXCEPT !.log = @ \cup {<<"no pid file", n>>},
                                  !.outcome[n] = "absent"]
                /\ idx' = idx + 1
                /\ UNCHANGED <<proc, runDir, pc, child, cur, lines, clock, P, exit>>
           ELSE IF pid = NoPid
           THEN /\ h' = [h EXCEPT !.log = @ \cup {<<"invalid pid file", n>>},
                                  !.outcome[n] = "invalid"]
                /\ runDir' = Unlink(runDir, n)
                /\ idx' = idx + 1
                /\ UNCHANGED <<proc, pc, child, cur, lines, clock, P, exit>>
           ELSE IF KillError(pid) \notin {"none", "ProcessLookupError"}
           THEN /\ h' = [h EXCEPT !.log = @ \cup {<<"stopping", n>>},
                                  !.sig = Append(@, <<n, pid>>),
                                  !.outcome[n] = KillError(pid)]
                /\ Finish(1)
                /\ UNCHANGED <<proc, runDir>>
           ELSE /\ h' = [h EXCEPT !.log = @ \cup {<<"stopping", n>>, <<"stopped", n>>},
                                  !.sig = Append(@, <<n, pid>>),
                                  !.outcome[n] = "terminated"]
                /\ proc' = Killed(pid)
                /\ runDir' = Unlink(runDir, n)
                /\ idx' = idx + 1
                /\ UNCHANGED <<pc, child, cur, lines, clock, P, exit>>
    /\ UNCHANGED <<host, deployment, pidsJson, pidDir, fvbPidDir, fvbProcesses, op, args>>

\* main: print("[stop] Done."); return 0
CbStopDone ==
    /\ pc = "cb_stop"
    /\ idx > Len(CbStopOrder)
    /\ h' = [h EXCEPT !.log = @ \cup {Msg("Done")}]
    /\ Finish(0)
    /\ UNCHANGED <<host, deployment, proc, files, fvbProcesses, op, args>>

\* -------------------------------------- start_server.py (unified): start()
\* __main__: main()
UnMain ==
    /\ variant = "unified"
    /\ Begin("start", "un_main", NoArgs, <<>>)
    /\ UNCHANGED <<host, deployment, proc, files>>

\* main: no venv python -> sys.exit(1); no create_app / app -> sys.exit(1);
\* else run_flask(py, target)
UnMainCheck ==
    /\ pc = "un_main"
    /\ \E venv \in BOOLEAN, target \in BOOLEAN :
          IF venv /\ target
          THEN /\ pc' = "un_popen"
               /\ cur' = "backend"
               /\ UNCHANGED <<child, lines, clock, P, idx, exit, h>>
          ELSE /\ h' = [h EXCEPT !.log = @ \cup {Msg(IF venv THEN "no app target"
                                                     ELSE "no venv python")}]
               /\ Finish(1)
    /\ UNCHANGED <<host, deployment, proc, files, fvbProcesses, op, args>>

\* run_flask: proc = subprocess.Popen(cmd, ...), whatever .pids/flask.pid says
UnRunFlaskPopen ==
    /\ pc = "un_popen"
    /\ \E pid \in PIDs :
          /\ Popen("backend", pid)
          /\ h' = [h EXCEPT !.spawned["backend"] = pid,
                            !.outcome["backend"] = "spawned"]
    /\ pc' = "un_write"
    /\ UNCHANGED <<host, deployment, files, fvbProcesses, op, args, cur, lines, clock, P, idx, exit>>

\* run_flask: (PID_DIR / "flask.pid").write_text(str(proc.pid))
UnRunFlaskWrite ==
    /\ pc = "un_write"
    /\ pidDir' = [pidDir EXCEPT !["backend"] = File(Str(child))]
    /\ h' = [h EXCEPT !.wrote = @ \cup {"backend"}]
    /\ Goto("un_read")
    /\ UNCHANGED <<host, deployment, proc, pidsJson, runDir, fvbPidDir, fvbProcesses, op, args>>

\* run_flask: "for line in proc.stdout" has no cap: it ends at the end of the
\* child's output only, then proc.wait() and the script ends. lines counts
\* "none read yet" / "some read".
UnRunFlaskRead ==
    /\ pc = "un_read"
    /\ \E eof \in BOOLEAN :
          /\ eof => proc[child] # cur
          /\ IF eof
             THEN /\ h' = [h EXCEPT !.ret[cur] = child]
                  /\ Finish(0)
             ELSE /\ lines' = 1
                  /\ UNCHANGED <<pc, h, child, cur, clock, P, idx, exit>>
    /\ UNCHANGED <<host, deployment, proc, files, fvbProcesses, op, args>>

\* --------------------------------------- stop_servers.py (unified): stop()
\* The order of the two kill_pidfile calls in main.
UnStopOrder == <<"backend", "frontend">>

\* __main__: main()
UnStopMain ==
    /\ variant = "unified"
    /\ Begin("stop", "un_stop", NoArgs, <<>>)
    /\ UNCHANGED <<host, deployment, proc, files>>

\* kill_pidfile: no file -> return False; unreadable -> unlink, return False;
\* else taskkill / os.kill inside try / except Exception / finally: unlink.
UnKillPidfile ==
    /\ pc = "un_stop"
    /\ idx <= Len(UnStopOrder)
    /\ LET n == UnStopOrder[idx]
           pid == ReadFile(pidDir[n])
       IN  IF ~pidDir[n].exists
           THEN /\ h' = [h EXCEPT !.outcome[n] = "absent"]
                /\ UNCHANGED <<proc, pidDir>>
           ELSE IF pid = NoPid
           THEN /\ h' = [h EXCEPT !.outcome[n] = "invalid"]
                /\ pidDir' = Unlink(pidDir, n)
                /\ UNCHANGED proc
           ELSE /\ h' = [h EXCEPT !.log = @ \cup {<<IF KillError(pid) = "none"
                                                    THEN "killed" ELSE "could not kill",
                                                    n>>},
                                  !.sig = Append(@, <<n, pid>>),
                                  !.outcome[n] = "terminated"]
                /\ proc' = Killed(pid)
                /\ pidDir' = Unlink(pidDir, n)
    /\ idx' = idx + 1
    /\ UNCHANGED <<host, deployment, pidsJson, runDir, fvbPidDir, fvbProcesses, op, pc, args, child,
                   cur, lines, clock, P, exit>>

\* main: any_killed is True when some kill_pidfile got as far as the kill;
\* print "no pid files found" or "done".
UnStopDone ==
    /\ pc = "un_stop"
    /\ idx > Len(UnStopOrder)
    /\ LET any_killed == \E n \in Names : h.outcome[n] = "terminated"
       IN  h' = [h EXCEPT !.log = @ \cup {Msg(IF any_killed THEN "Done"
                                              ELSE "no pid files found")}]
    /\ Finish(0)
    /\ UNCHANGED <<host, deployment, proc, files, fvbProcesses, op, args>>

\* ------------------------------ FlaskViteBootloader (vite_flask_bootloader)
\* main --deploy: bootloader = FlaskViteBootloader(...); bootloader.deploy()
\* up to _start_services: a failing install or build raises, exit code 1
FvbDeploy ==
    /\ variant = "fvb"
    /\ \E enabled \in BOOLEAN, restart \in BOOLEAN :
          Begin("start", "fvb_deploy",
                [NoArgs EXCEPT !.health_check_enabled = enabled,
                               !.restart_on_failure = restart], <<>>)
    /\ UNCHANGED <<host, deployment, proc, files>>

\* deploy: _create_directories, _install_dependencies, _build_frontend
FvbPrepare ==
    /\ pc = "fvb_deploy"
    /\ \E ok \in BOOLEAN :
          IF ok
          THEN /\ Goto("fvb_backend")
               /\ UNCHANGED h
          ELSE /\ h' = [h EXCEPT !.log = @ \cup {Msg("Deployment failed")}]
               /\ Finish(1)
    /\ UNCHANGED <<host, deployment, proc, files, fvbProcesses, op, args>>

\* _start_backend: gunicorn --pid <pid_dir>/backend.pid --daemon: the Popen
\* child forks the server and exits at once, so self.processes["backend"] is
\* the handle of a process that has exited (NoPid); the server writes its
\* own pid to backend.pid.
FvbStartBackend ==
    /\ pc = "fvb_backend"
    /\ \E backend_dir \in BOOLEAN :
          IF backend_dir
          THEN \E pid \in PIDs :
                  /\ Popen("backend", pid)
                  /\ fvbPidDir' = [fvbPidDir EXCEPT !["backend"] = File(Str(pid))]
                  /\ fvbProcesses' = DictSet(fvbProcesses, "backend", NoPid)
                  /\ h' = [h EXCEPT !.spawned["backend"] = pid,
                                    !.outcome["backend"] = "spawned"]
          ELSE /\ h' = [h EXCEPT !.outcome["backend"] = "no directory"]
               /\ UNCHANGED <<proc, child, fvbPidDir, fvbProcesses>>
    /\ pc' = "fvb_frontend"
    /\ UNCHANGED <<host, deployment, pidsJson, runDir, pidDir, op, args, cur, lines, clock, P, idx,
                   exit>>

\* _start_frontend: process = subprocess.Popen(cmd, ...);
\* self.processes["frontend"] = process; pid_file.write_text(str(process.pid))
FvbStartFrontend ==
    /\ pc = "fvb_frontend"
    /\ \E frontend_dir \in BOOLEAN :
          IF frontend_dir
          THEN \E pid \in PIDs :
                  /\ Popen("frontend", pid)
                  /\ fvbPidDir' = [fvbPidDir EXCEPT !["frontend"] = File(Str(pid))]
                  /\ fvbProcesses' = DictSet(fvbProcesses, "frontend", pid)
                  /\ h' = [h EXCEPT !.spawned["frontend"] = pid,
                                    !.outcome["frontend"] = "spawned",
                                    !.wrote = @ \cup {"frontend"}]
          ELSE /\ h' = [h EXCEPT !.outcome["frontend"] = "no directory"]
               /\ UNCHANGED <<proc, child, fvbPidDir, fvbProcesses>>
    /\ pc' = "fvb_serving"
    /\ UNCHANGED <<host, deployment, pidsJson, runDir, pidDir, op, args, cur, lines, clock, P, idx,
                   exit>>

\* main: "while True: time.sleep(1)" until SIGINT / SIGTERM: _signal_handler
\* calls self.stop() in the process that deployed
FvbSignal ==
    /\ pc = "fvb_serving"
    /\ Goto("fvb_stop")
    /\ UNCHANGED <<host, deployment, proc, files, fvbProcesses, op, args, h>>

\* _restart_service(n): the handle kept in self.processes is terminated and
\* dropped; then _start_backend / _start_frontend runs again, which spawns
\* with PID pid when the service directory exists (dir). st holds the
\* process table, the pid files, self.processes and the history.
FvbRestartService(st, n, dir, pid) ==
    LET handle == DictGet(st.processes, n)
        running == handle # NoPid /\ st.proc[handle] = n
        stopped == IF running THEN [st.proc EXCEPT ![handle] = "none"] ELSE st.proc
        dropped == DictPop(st.processes, n)
    IN  IF ~dir
        THEN [st EXCEPT !.proc = stopped, !.processes = dropped,
                        !.h.outcome[n] = "restarted"]
        ELSE [proc |-> [stopped EXCEPT ![pid] = n],
              pidDir |-> [st.pidDir EXCEPT ![n] = File(Str(pid))],
              processes |-> Append(dropped, <<n, IF n = "backend" THEN NoPid ELSE pid>>),
              h |-> [st.h EXCEPT !.outcome[n] = "restarted",
                                 !.spawned[n] = pid,
                                 !.wrote = IF n = "frontend" THEN @ \cup {n} ELSE @]]

\* The probe of service n in _check_service_health: urlopen raises URLError
\* when nothing answers (the service has exited) and also when a running
\* service does not answer; then, with restart_on_failure, the service is
\* restarted.
FvbProbe(st, n, healthy, dir, pid) ==
    IF healthy \/ ~args.restart_on_failure THEN st
    ELSE FvbRestartService(st, n, dir, pid)

\* The inputs a probe can have: a service that answers runs; the PID of a
\* spawn is free once the old handle is terminated.
FvbProbeInput(st, n, healthy, dir, pid) ==
    /\ healthy => \E p \in PIDs : st.proc[p] = n
    /\ IF ~healthy /\ args.restart_on_failure /\ dir
       THEN FvbRestartService(st, n, FALSE, pid).proc[pid] = "none"
       ELSE ~dir /\ pid = PidBase

\* One pass of the thread _start_health_monitor started, while main sleeps in
\* "while True": _check_service_health probes the backend, then the frontend.
FvbCheckServiceHealth ==
    /\ pc = "fvb_serving"
    /\ args.health_check_enabled
    /\ \E hb \in BOOLEAN, db \in BOOLEAN, pb \in PIDs,
          hf \in BOOLEAN, df \in BOOLEAN, pf \in PIDs :
          LET st0 == [proc |-> proc, pidDir |-> fvbPidDir,
                      processes |-> fvbProcesses, h |-> h]
              st1 == FvbProbe(st0, "backend", hb, db, pb)
              st2 == FvbProbe(st1, "frontend", hf, df, pf)
          IN  /\ FvbProbeInput(st0, "backend", hb, db, pb)
              /\ FvbProbeInput(st1, "frontend", hf, df, pf)
              /\ proc' = st2.proc
              /\ fvbPidDir' = st2.pidDir
              /\ fvbProcesses' = st2.processes
              /\ h' = st2.h
    /\ child' = NoPid
    /\ UNCHANGED <<host, deployment, pidsJson, runDir, pidDir, op, pc, args, cur, lines,
                   clock, P, idx, exit>>

\* main --stop: bootloader = FlaskViteBootloader(...); bootloader.stop():
\* a new instance, whose self.processes is {}
FvbStop ==
    /\ variant = "fvb"
    /\ Begin("stop", "fvb_stop", NoArgs, <<>>)
    /\ UNCHANGED <<host, deployment, proc, files>>

\* The handles of self.processes whose process still runs: Popen.terminate()
\* does nothing for a process that has exited.
FvbRunning == SelectSeq(fvbProcesses, LAMBDA e : e[2] # NoPid /\ proc[e[2]] = e[1])

\* stop: for service_name, process in self.processes.items():
\* process.terminate(); process.wait(); then self.processes.clear(). No pid
\* file is read or removed.
FvbStopAll ==
    /\ pc = "fvb_stop"
    /\ h' = [h EXCEPT !.sig = @ \o FvbRunning,
                      !.outcome = [n \in Names |->
                                     IF \E i \in 1..Len(FvbRunning) : FvbRunning[i][1] = n
                                     THEN "terminated" ELSE @[n]],
                      !.log = @ \cup {Msg("All services stopped")}]
    /\ proc' = [p \in PIDs |-> IF \E i \in 1..Len(FvbRunning) : FvbRunning[i][2] = p
                               THEN "none" ELSE proc[p]]
    /\ fvbProcesses' = <<>>
    /\ Finish(0)
    /\ UNCHANGED <<host, deployment, files, op, args>>

\* ------------------------------------------------------------- environment
\* The loops of a run observe one thing only: the read-back loop the end of
\* its child's output, the health poll a serving backend. What happens to
\* any other process while the run is in such a loop is taken when the run
\* has left the loop (or was killed); nothing of the run depends on the order.
\* Between _wait_health and _start_vite main looks at no process at all.
ReadLoops == {"v2_flask_read", "v2_vite_read", "cb_flask_read", "cb_vite_read",
              "un_read"}
Observed(pid) ==
    /\ pc \in ReadLoops => pid = child
    /\ pc = "v2_health" => proc[pid] = "backend"
    /\ pc # "v2_main_vite"

\* A process exits by itself (a managed process crashes, a foreign one ends).
ProcExit(pid) ==
    /\ pc \notin Rest \ {"idle"}
    /\ Observed(pid)
    /\ proc[pid] # "none"
    /\ proc' = [proc EXCEPT ![pid] = "none"]
    /\ h' = [h EXCEPT !.liveAtCall = [n \in Names |-> IF @[n] = pid THEN NoPid ELSE @[n]]]
    /\ UNCHANGED <<host, deployment, files, fvbProcesses, op, pc, args, locals, exit>>

\* The PIDs some registry file names.
Recorded ==
    {DictGet(Loads(pidsJson.text), Key(n)) : n \in Names}
    \cup {ReadFile(runDir[n]) : n \in Names}
    \cup {ReadFile(pidDir[n]) : n \in Names}
    \cup {ReadFile(fvbPidDir[n]) : n \in Names}

\* The operating system hands a free PID to a process of another user. Only
\* the reuse of a PID that a registry still names is visible to the supervisor.
PidReuse(pid) ==
    /\ pc \notin Rest \ {"idle"}
    /\ Observed(pid)
    /\ proc[pid] = "none"
    /\ pid \in Recorded
    /\ proc' = [proc EXCEPT ![pid] = "foreign"]
    /\ UNCHANGED <<host, deployment, files, fvbProcesses, op, pc, args, locals, exit, h>>

\* The orchestrator process is killed in the middle of a run (SIGKILL, closed
\* console); its children live on. A killed run reports nothing: its history
\* is dropped.
KillOrchestrator ==
    /\ pc \notin Rest
    /\ pc' = "killed"
    /\ exit' = 137
    /\ child' = NoPid /\ cur' = "none" /\ lines' = 0 /\ clock' = 0
    /\ P' = <<>> /\ idx' = 1
    /\ fvbProcesses' = <<>>
    /\ args' = NoArgs
    /\ h' = NoHistory
    /\ UNCHANGED <<host, deployment, proc, files, op>>

\* The orchestrator process is gone: nothing of the run is left but the files
\* and the children.
RunOver ==
    /\ pc \in Rest \ {"idle"}
    /\ pc' = "idle" /\ op' = "none" /\ args' = NoArgs /\ exit' = -1
    /\ h' = NoHistory
    /\ UNCHANGED <<host, deployment, proc, files, fvbProcesses, locals>>

\* Between two runs processes come and go; within a run they do so between
\* any two steps.
Environment ==
    \/ RunOver
    \/ \E pid \in PIDs : ProcExit(pid)
    \/ \E pid \in PIDs : PidReuse(pid)
    \/ KillOrchestrator

\* =============================== python_env_bootloader.py --deploy (Step 2)
\* ------------------------------------------------------ requirements.txt
\* A line of text is a sequence of tokens: a word (a name, a version) or one
\* of the characters " ", "#", "=", ">", "<", "~", ",".
\* MUST_HAVE: the dict name -> requirement line, in insertion order.
MUST_HAVE ==
    << <<"flask", <<"Flask", ">", "=", "3.0", ",", "<", "4">> >>,
       <<"werkzeug", <<"Werkzeug", ">", "=", "3.0", ",", "<", "4">> >>,
       <<"jinja2", <<"Jinja2", ">", "=", "3.1", ",", "<", "4">> >>,
       <<"markupsafe", <<"MarkupSafe", ">", "=", "2.1.5", ",", "<", "3">> >>,
       <<"itsdangerous", <<"itsdangerous", ">", "=", "2.1", ",", "<", "3">> >>,
       <<"click", <<"click", ">", "=", "8.1", ",", "<", "9">> >>,
       <<"blinker", <<"blinker", ">", "=", "1.7", ",", "<", "2">> >>,
       <<"flask-cors", <<"flask-cors", ">", "=", "4.0", ",", "<", "5">> >> >>

\* MUST_HAVE.values()
MustHaveValues == [i \in 1..Len(MUST_HAVE) |-> MUST_HAVE[i][2]]

\* str.lower() of a word.
LowerWord(w) ==
    CASE w = "Flask" -> "flask"
      [] w = "Werkzeug" -> "werkzeug"
      [] w = "Jinja2" -> "jinja2"
      [] w = "MarkupSafe" -> "markupsafe"
      [] w = "Click" -> "click"
      [] OTHER -> w
Lower(ln) == [i \in 1..Len(ln) |-> LowerWord(ln[i])]

\* str.strip(): leading and trailing blanks removed.
RECURSIVE LStrip(_)
LStrip(ln) == IF ln # <<>> /\ Head(ln) = " " THEN LStrip(Tail(ln)) ELSE ln
RECURSIVE RStrip(_)
RStrip(ln) == IF ln # <<>> /\ ln[Len(ln)] = " "
              THEN RStrip(SubSeq(ln, 1, Len(ln) - 1)) ELSE ln
Strip(ln) == RStrip(LStrip(ln))

\* ln.split(sep)[0]: the text before the first occurrence of the separator.
Before(ln, sep) ==
    LET at == {i \in 1..(Len(ln) - Len(sep) + 1) : SubSeq(ln, i, i + Len(sep) - 1) = sep}
    IN  IF at = {} THEN ln
        ELSE SubSeq(ln, 1, (CHOOSE i \in at : \A j \in at : i <= j) - 1)

\* ln.strip().split("==")[0].split(">=")[0].split("<")[0].lower()
ReqName(ln) ==
    Lower(Before(Before(Before(Strip(ln), <<"=", "=">>), <<">", "=">>), <<"<">>))

\* "if ln.strip() and not ln.strip().startswith('#')"
ReqLine(ln) == Strip(ln) # <<>> /\ Head(Strip(ln)) # "#"

\* A text file: absent, or its lines (splitlines) and whether the last line
\* ends with a newline.
NoFile == [exists |-> FALSE, lines |-> <<>>, eol |-> TRUE]
TextFile(lns, eol) == [exists |-> TRUE, lines |-> lns, eol |-> eol]

\* f.write("\n" + "\n".join(additions) + "\n") on a file opened with "a": the
\* leading newline ends an unterminated last line, or else (the text is empty
\* or ends with a newline) adds an empty line.
AppendLines(f, additions) ==
    TextFile(f.lines \o (IF f.eol \/ f.lines = <<>> THEN << <<>> >> ELSE <<>>)
                     \o additions, TRUE)

\* write_requirements with every file written afresh.
WriteRequirementsAfresh(f) == TextFile(MustHaveValues, TRUE)

\* write_requirements: the file after the call.
WriteRequirements(f) ==
    IF ~f.exists THEN TextFile(MustHaveValues, TRUE)
    ELSE LET lower == {ReqName(f.lines[i]) :
                         i \in {j \in 1..Len(f.lines) : ReqLine(f.lines[j])}}
             missing == SelectSeq(MUST_HAVE, LAMBDA e : <<e[1]>> \notin lower)
             additions == [i \in 1..Len(missing) |-> missing[i][2]]
         IN  IF additions # <<>> THEN AppendLines(f, additions) ELSE f

\* ================================================================= scaffold
\* Paths are sequences of segments, relative to the deployment root.
Parent(p) == SubSeq(p, 1, Len(p) - 1)
Ancestors(p) == {SubSeq(p, 1, k) : k \in 1..(Len(p) - 1)}

\* Path.mkdir(parents=True, exist_ok=True)
Mkdir(ds, d) == ds \cup {d} \cup Ancestors(d)

StartPy == <<"start_server.py">>
StopPy == <<"stop_servers.py">>

\* create_folder_structure: folders, with the default structure.
FolderDirs ==
    << <<"backend">>, <<"frontend">>, <<"frontend", "src">>,
       <<"frontend", "src", "components">>, <<"frontend", "src", "pages">>,
       <<"frontend", "src", "hooks">>, <<"frontend", "src", "utils">>,
       <<"frontend", "public">>, <<"backend", "app">>,
       <<"backend", "app", "routes">>, <<"backend", "app", "models">>,
       <<"backend", "app", "utils">>, <<"tests">>, <<"tests", "backend">>,
       <<"tests", "frontend">>, <<"docs">>, <<"scripts">>, <<"config">>,
       <<"logs">> >>

\* _create_basic_files: the paths of files_to_create.
FolderFiles ==
    << <<"backend", "app", "__init__.py">>, <<"backend", "app", "main.py">>,
       <<"backend", "app", "routes", "__init__.py">>,
       <<"backend", "app", "models", "__init__.py">>,
       <<"backend", "app", "utils", "__init__.py">>,
       <<"frontend", "src", "main.jsx">>, <<"frontend", "src", "App.jsx">>,
       <<"frontend", "public", "index.html">>,
       <<"tests", "backend", "__init__.py">>, <<"tests", "frontend", "__init__.py">>,
       <<"tests", "test_example.py">>, <<"config", ".env.example">>,
       <<"docs", "README.md">>, <<"scripts", "dev.py">>, <<"logs", ".gitkeep">> >>

\* _create_basic_files: default_reqs.
DefaultReqs ==
    << <<"flask", ">", "=", "3.0", ",", "<", "4">>,
       <<"werkzeug", ">", "=", "3.0", ",", "<", "4">>,
       <<"jinja2", ">", "=", "3.1", ",", "<", "4">>,
       <<"markupsafe", ">", "=", "2.1", ",", "<", "3">>,
       <<"blinker", ">", "=", "1.7", ",", "<", "2">>,
       <<"itsdangerous", ">", "=", "2.1", ",", "<", "3">> >>
RequirementsTxt == <<"backend", "requirements.txt">>

\* ensure_backend (Step 2) and ensure_frontend (Step 3).
EnvDirs == << <<"backend", "app", "routes">>, <<"backend", "app", "models">>,
              <<"backend", "app", "utils">> >>
EnvFiles == << <<"backend", "app", "__init__.py">>, <<"backend", "app", "main.py">> >>
ViteDirs == << <<"frontend", "src">>, <<"frontend", "public">> >>
ViteFiles == << <<"frontend", "package.json">>, <<"frontend", "index.html">>,
                <<"frontend", "src", "main.jsx">>, <<"frontend", "src", "App.jsx">>,
                <<"frontend", "vite.config.js">> >>
RunDir == <<".vela-run">>

ScaffoldPaths ==
    Range(FolderFiles) \cup Range(EnvFiles) \cup Range(ViteFiles) \cup {StartPy, StopPy}

NoTree == [p \in ScaffoldPaths |-> "absent"]
NoFolderHistory ==
    [runs |-> "none",
     wrote |-> [folders |-> {}, files |-> {}, scripts |-> {}],
     ret |-> [folders |-> <<>>, files |-> <<>>, scripts |-> <<>>]]

\* st is the state of the root: [tree, dirs], with the result "ok" of the
\* last call.
\* safe_write that writes whether or not the file exists.
SafeWriteAlways(st, p, content) ==
    [tree |-> [st.tree EXCEPT ![p] = content],
     dirs |-> Mkdir(st.dirs, Parent(p)) \ {<<>>}, ok |-> TRUE]

\* safe_write: "if path.exists(): return False"; else the parent is made,
\* the file is written and True is returned.
SafeWrite(st, p, content) ==
    IF st.tree[p] # "absent" THEN [st EXCEPT !.ok = FALSE]
    ELSE [tree |-> [st.tree EXCEPT ![p] = content],
          dirs |-> Mkdir(st.dirs, Parent(p)) \ {<<>>}, ok |-> TRUE]

\* "if not p.exists(): p.write_text(...)" of ensure_backend, ensure_frontend.
WriteIfMissing(t, p, content) ==
    IF t[p] # "absent" THEN t ELSE [t EXCEPT ![p] = content]

\* The loop over folders: "if not folder_path.exists(): mkdir(parents=True,
\* exist_ok=True); created_folders.append(folder)".
RECURSIVE CreateFolders(_, _, _)
CreateFolders(ds, folders, created_folders) ==
    IF folders = <<>> THEN [dirs |-> ds, created_folders |-> created_folders]
    ELSE IF Head(folders) \in ds
    THEN CreateFolders(ds, Tail(folders), created_folders)
    ELSE CreateFolders(Mkdir(ds, Head(folders)), Tail(folders),
                       Append(created_folders, Head(folders)))

\* The loops "if safe_write(...): created.append(rel)" of _create_basic_files
\* and write_unified_scripts.
RECURSIVE WriteFiles(_, _, _, _)
WriteFiles(st, paths, content, created_files) ==
    IF paths = <<>> THEN [st |-> st, created |-> created_files]
    ELSE LET w == SafeWrite(st, Head(paths), content)
         IN  WriteFiles(w, Tail(paths), content,
                        IF w.ok THEN Append(created_files, Head(paths))
                        ELSE created_files)

\* create_folder_structure: the folders, _create_basic_files (with
\* backend/requirements.txt, written by safe_write and not appended to
\* created_files), write_unified_scripts. The result: the root after the
\* call, the paths it created and the lists returned.
CreateFolderStructure(t, ds, rq) ==
    LET made == CreateFolders(ds, FolderDirs, <<>>)
        basic == WriteFiles([tree |-> t, dirs |-> made.dirs, ok |-> FALSE],
                            FolderFiles, "folder", <<>>)
        seeded == ~rq.exists
        scripts == WriteFiles(basic.st, <<StartPy, StopPy>>, "unified", <<>>)
    IN  [tree |-> scripts.st.tree,
         dirs |-> IF seeded THEN Mkdir(scripts.st.dirs, Parent(RequirementsTxt))
                  ELSE scripts.st.dirs,
         reqs |-> IF seeded THEN TextFile(DefaultReqs, TRUE) ELSE rq,
         wrote |-> [folders |-> made.dirs \ ds,
                    files |-> {p \in Range(FolderFiles) : t[p] # basic.st.tree[p]}
                              \cup (IF seeded THEN {RequirementsTxt} ELSE {}),
                    scripts |-> {p \in {StartPy, StopPy} :
                                   basic.st.tree[p] # scripts.st.tree[p]}],
         ret |-> [folders |-> made.created_folders,
                  files |-> basic.created,
                  scripts |-> scripts.created]]

\* folder_bootloader.py --deploy (Step 1): FolderBootloader().deploy().
FolderMain ==
    /\ ipc = "idle" /\ dpc = "idle"
    /\ LET run == CreateFolderStructure(tree, dirs, reqs)
       IN  /\ tree' = run.tree
           /\ dirs' = run.dirs
           /\ reqs' = run.reqs
           /\ fh' = [runs |-> IF fh.runs = "none" THEN "one" ELSE "more", wrote |-> run.wrote, ret |-> run.ret]
    /\ UNCHANGED <<supervisor, resolution, flaskPid, race, monitor, construction, pyproject, uv, python_exe, created, ipc, irc, ih,
                   deployer, codes>>

\* ensure_backend: the three directories, then __init__.py and main.py when
\* they are missing.
RECURSIVE MkdirAll(_, _)
MkdirAll(ds, ps) == IF ps = <<>> THEN ds ELSE MkdirAll(Mkdir(ds, Head(ps)), Tail(ps))
RECURSIVE WriteAllIfMissing(_, _, _)
WriteAllIfMissing(t, ps, content) ==
    IF ps = <<>> THEN t
    ELSE WriteAllIfMissing(WriteIfMissing(t, Head(ps), content), Tail(ps), content)
EnsureBackend ==
    /\ dirs' = MkdirAll(dirs, EnvDirs)
    /\ tree' = WriteAllIfMissing(tree, EnvFiles, "env")

\* write_start_stop_scripts: needs_update(p) is "not p.exists() or
\* 'VELA_START_SERVER_V2' not in p.read_text()"; the file is then written.
NeedsUpdate(t, p) == t[p] # "v2"
WriteStartStopScripts(t) ==
    [p \in ScaffoldPaths |->
        IF p \in {StartPy, StopPy} /\ NeedsUpdate(t, p) THEN "v2" ELSE t[p]]

\* write_combined_start_stop: both files are written with write_text.
WriteCombinedStartStop(t) ==
    [p \in ScaffoldPaths |-> IF p \in {StartPy, StopPy} THEN "combined" ELSE t[p]]

\* vite_bootloader.py --deploy (Step 3): ensure_frontend, ensure_npm,
\* npm_install (skipped without npm; SystemError when npm install fails),
\* write_combined_start_stop.
ViteMain ==
    /\ ipc = "idle" /\ dpc = "idle"
    /\ \E npm \in BOOLEAN, installed \in BOOLEAN :
          LET fe == WriteAllIfMissing(tree, ViteFiles, "vite")
              made == MkdirAll(dirs, ViteDirs)
          IN  /\ installed => npm
              /\ IF npm /\ ~installed
                 THEN /\ tree' = fe
                      /\ dirs' = made
                 ELSE /\ tree' = WriteCombinedStartStop(fe)
                      /\ dirs' = made \cup {RunDir}
    /\ UNCHANGED <<supervisor, resolution, flaskPid, race, monitor, construction, pyproject, fh, uv, installer, deployer, codes>>

\* ------------------------------------------------------------ main (Step 2)
NoInstallerHistory ==
    [cmds |-> <<>>, cause |-> "none", venvAtCall |-> FALSE, before |-> NoFile,
     nopip |-> FALSE, broken |-> {}, missing |-> <<>>, exits |-> <<>>]

\* The environment-creation commands of create_venv.
CreateCmds == {"uv venv", "python -m venv"}

\* A new installer process (main --deploy, or Step 2 of deploy.py). main's
\* ensure_backend only makes directories and the Flask stub.
InstallerBegin ==
    /\ ipc = "idle"
    /\ created < MaxCreate
    /\ ipc' = "write_requirements"
    /\ irc' = -1
    /\ ih' = [NoInstallerHistory EXCEPT !.venvAtCall = python_exe, !.before = reqs]
    /\ EnsureBackend
    /\ UNCHANGED <<python_exe, reqs, created, fh>>

\* main returns: sys.exit(main()).
InstallerEnd(code, hist) ==
    /\ ipc' = "exited"
    /\ irc' = code
    /\ ih' = hist
    /\ codes' = IF code = 0 THEN codes
                ELSE codes \cup {<<"python_env_bootloader",
                                   IF hist.cause = "interrupt" THEN "interrupt"
                                   ELSE "failure", code>>}

\* python_env_bootloader.py --deploy run by hand.
InstallerMain ==
    /\ dpc = "idle"
    /\ InstallerBegin
    /\ UNCHANGED <<supervisor, resolution, flaskPid, race, monitor, construction, pyproject, uv, deployer, codes>>

\* main: write_requirements(reqs_path)
IWriteRequirements ==
    /\ ipc = "write_requirements"
    /\ reqs' = WriteRequirements(reqs)
    /\ ipc' = "create_venv"
    /\ UNCHANGED <<supervisor, rootFiles, uv, python_exe, created, irc, ih, deployer, codes>>

\* create_venv: "uv venv" when uv is on the PATH, else "python -m venv"; a
\* non-zero return code raises SystemError, which main turns into return 1.
\* The command is run whether or not the environment exists.
ICreateVenv ==
    /\ ipc = "create_venv"
    /\ \E rc \in {0, 1} :
          LET cmd == IF uv THEN "uv venv" ELSE "python -m venv"
              ran == [ih EXCEPT !.cmds = Append(@, cmd)]
          IN  /\ created' = created + 1
              /\ IF rc = 0
                 THEN /\ python_exe' = TRUE
                      /\ ipc' = "ensure_pip"
                      /\ ih' = ran
                      /\ UNCHANGED <<irc, codes>>
                 ELSE /\ InstallerEnd(1, [ran EXCEPT !.cause = "venv"])
                      /\ UNCHANGED python_exe
    /\ UNCHANGED <<supervisor, rootFiles, uv, reqs, deployer>>

\* ensure_pip: "pip --version"; when it fails "ensurepip --upgrade" and again
\* "pip --version"; when that fails SystemError is raised: main returns 1.
IEnsurePip ==
    /\ ipc = "ensure_pip"
    /\ \E pip \in BOOLEAN, bootstrapped \in BOOLEAN :
          IF pip
          THEN /\ ~bootstrapped
               /\ ipc' = "install"
               /\ UNCHANGED <<irc, ih, codes>>
          ELSE LET ran == [ih EXCEPT !.cmds = Append(@, "ensurepip")]
               IN  IF bootstrapped
                   THEN /\ ipc' = "install"
                        /\ ih' = ran
                        /\ UNCHANGED <<irc, codes>>
                   ELSE InstallerEnd(1, [ran EXCEPT !.cause = "pip", !.nopip = TRUE])
    /\ UNCHANGED <<supervisor, rootFiles, uv, python_exe, reqs, created, deployer>>

\* install_requirements: the pip tooling first (its return code ends the
\* step when non-zero); then with uv on the PATH "pip install click
\* flask-cors", whose return code is dropped ("return rc" is the tooling's),
\* else "pip install -r requirements.txt". main: rc != 0 -> return 1.
IInstallRequirements ==
    /\ ipc = "install"
    /\ \E tooling \in {0, 1}, rc \in {0, 1} :
          LET second == IF uv THEN "pip install click" ELSE "pip install -r"
              ran1 == [ih EXCEPT !.cmds = Append(@, "pip install -U pip"),
                                 !.exits = Append(@, <<"pip install -U pip", tooling>>)]
              ran2 == [ran1 EXCEPT !.cmds = Append(@, second),
                                   !.exits = Append(@, <<second, rc>>)]
          IN  IF tooling # 0
              THEN /\ rc = 0
                   /\ InstallerEnd(1, [ran1 EXCEPT !.cause = "install"])
              ELSE IF uv \/ rc = 0
              THEN /\ ipc' = "verify"
                   /\ ih' = ran2
                   /\ UNCHANGED <<irc, codes>>
              ELSE InstallerEnd(1, [ran2 EXCEPT !.cause = "install"])
    /\ UNCHANGED <<supervisor, rootFiles, uv, python_exe, reqs, created, deployer>>

\* mods of the probe script of verify_stack.
VerifyMods == <<"flask", "werkzeug", "jinja2", "markupsafe", "blinker", "click">>

\* The packages of MUST_HAVE that fail to import in an environment.
BrokenSets == {S \in SUBSET {MUST_HAVE[i][1] : i \in 1..Len(MUST_HAVE)} :
                  Cardinality(S) <= MaxBroken}

\* The probe script: "for m in mods: try: import_module(m) except Exception
\* as e: missing.append((m, str(e)))": the list "missing" it prints.
Probe(broken) == SelectSeq(VerifyMods, LAMBDA mod : mod \in broken)

\* The two cases that decide how the run ends: every import works, or one of
\* the probed modules fails to import.
ImportCases == {{}, {"flask"}}

\* verify_stack raises SystemError when the probe exits non-zero or reports a
\* module missing; else main writes the start / stop scripts, with
\* --start-now calls start_flask_detached (proc = subprocess.Popen(cmd);
\* pid_file.write_text(str(proc.pid)) on backend/flask.pid), prints SUCCESS
\* and returns 0. The environment is one of envs, --start-now one of flags.
IVerifyStack(envs, flags) ==
    /\ ipc = "verify"
    /\ \E broken \in envs, crashed \in BOOLEAN, start_now \in flags :
          LET missing == IF crashed THEN <<>> ELSE Probe(broken)
              ok == ~crashed /\ missing = <<>>
          IN  /\ crashed => broken = {}
              /\ ~ok => ~start_now
              /\ tree' = IF ok THEN WriteStartStopScripts(tree) ELSE tree
              /\ IF start_now
                 THEN \E pid \in PIDs :
                         /\ proc[pid] = "none"
                         /\ proc' = [proc EXCEPT ![pid] = "backend"]
                         /\ flaskPid' = File(Str(pid))
                 ELSE UNCHANGED <<proc, flaskPid>>
              /\ InstallerEnd(IF ok THEN 0 ELSE 1,
                              [ih EXCEPT !.cmds = Append(@, "verify"),
                                         !.cause = IF ok THEN "none" ELSE "verify",
                                         !.broken = broken,
                                         !.missing = missing])
    /\ UNCHANGED <<host, files, fvbProcesses, op, pc, args, locals, exit, h>>
    /\ UNCHANGED <<resolution, race, monitor, construction, pyproject, dirs, fh, uv, python_exe, reqs, created,
                   deployer>>

\* Where main is inside its try block.
InstallerSteps == {"write_requirements", "create_venv", "ensure_pip", "install",
                   "verify"}

\* main: "except KeyboardInterrupt: print('[STEP2] Interrupted'); return 130"
IInterrupt ==
    /\ ipc \in InstallerSteps
    /\ InstallerEnd(130, [ih EXCEPT !.cause = "interrupt"])
    /\ UNCHANGED <<supervisor, rootFiles, uv, python_exe, reqs, created, deployer>>

\* The installer process run by hand is gone.
InstallerOver ==
    /\ dpc = "idle"
    /\ ipc = "exited"
    /\ ipc' = "idle"
    /\ irc' = -1
    /\ ih' = NoInstallerHistory
    /\ UNCHANGED <<supervisor, rootFiles, uv, python_exe, reqs, created, deployer, codes>>

InstallerWith(envs, flags) ==
    \/ InstallerMain \/ IWriteRequirements \/ ICreateVenv \/ IEnsurePip
    \/ IInstallRequirements \/ IVerifyStack(envs, flags) \/ IInterrupt \/ InstallerOver

\* The installer without --start-now.
InstallerOn(envs) == InstallerWith(envs, {FALSE})

Installer == InstallerOn(ImportCases)

\* ================================================================ deploy.py
Steps == 1..3
Streams == {"stdout", "stderr"}
NoDeployArgs == [skip_env |-> FALSE, skip_frontend |-> FALSE,
                 step2_present |-> FALSE, step3_present |-> FALSE]
NoDeployHistory ==
    [started |-> <<>>, returned |-> <<>>, failed |-> {},
     captured |-> [s \in Steps |-> {}], logged |-> {}, warned |-> {},
     complete |-> FALSE, cause |-> "none", installer |-> "not run"]

\* What subprocess.run(cmd, check=True, capture_output=True) does: it returns
\* (return code 0), raises CalledProcessError (another return code), or
\* raises OSError (the command could not be started, nothing captured).
Outcomes == {"ok", "CalledProcessError", "OSError"}

\* sys.exit(code) / return from main: the run ends.
DeployExit(code, hist) ==
    /\ dpc' = IF code = 0 THEN "done" ELSE "failed"
    /\ dexit' = code
    /\ dh' = hist
    /\ codes' = IF code = 0 THEN codes
                ELSE codes \cup {<<"deploy", IF hist.cause = "interrupt"
                                            THEN "interrupt" ELSE "failure", code>>}

\* __main__: main(skip_env, skip_frontend, verbose); have_file(...) of the
\* two optional step scripts.
DeployMain ==
    /\ dpc = "idle"
    /\ ipc = "idle"
    /\ created < MaxCreate
    /\ \E skip_env \in BOOLEAN, skip_frontend \in BOOLEAN,
          step2_present \in BOOLEAN, step3_present \in BOOLEAN :
          dargs' = [skip_env |-> skip_env, skip_frontend |-> skip_frontend,
                    step2_present |-> step2_present, step3_present |-> step3_present]
    /\ dpc' = "check_requirements"
    /\ dexit' = -1
    /\ dh' = NoDeployHistory
    /\ UNCHANGED <<supervisor, rootFiles, uv, installer, codes>>

\* main: "if not check_requirements(): ... sys.exit(1)"
DeployCheckRequirements ==
    /\ dpc = "check_requirements"
    /\ \E ok \in BOOLEAN :
          IF ok
          THEN /\ dpc' = "check_local_files"
               /\ UNCHANGED <<dexit, dh, codes>>
          ELSE DeployExit(1, [dh EXCEPT !.cause = "requirements"])
    /\ UNCHANGED <<supervisor, rootFiles, uv, installer, dargs>>

\* main: "if not check_local_files(require_env=...): ... sys.exit(1)": the
\* base files folder_bootloader.py and bootloader_config.json, and
\* python_env_bootloader.py when Step 2 is to run.
DeployCheckLocalFiles ==
    /\ dpc = "check_local_files"
    /\ \E base \in BOOLEAN :
          LET require_env == ~dargs.skip_env /\ dargs.step2_present
              missing == ~base \/ (require_env /\ ~dargs.step2_present)
          IN  IF ~missing
              THEN /\ dpc' = "step1"
                   /\ UNCHANGED <<dexit, dh, codes>>
              ELSE DeployExit(1, [dh EXCEPT !.cause = "files"])
    /\ UNCHANGED <<supervisor, rootFiles, uv, installer, dargs>>

\* run_step / run_step_soft up to subprocess.run: the step's subprocess starts.
StepStarted(s) == [dh EXCEPT !.started = Append(@, s)]

\* run_step: the captured streams it writes to the log with _log_stream
\* (after success and in "except CalledProcessError").
RunStepLogs(outcome, captured) ==
    IF outcome \in {"ok", "CalledProcessError"} THEN captured ELSE {}

\* run_step_soft: the captured streams it writes to the log: those of a
\* successful run; "except Exception" calls logger.exception only.
RunStepSoftLogs(outcome, captured) == IF outcome = "ok" THEN captured ELSE {}

\* main with a Step 1 whose failure is passed over.
Step1Ignored(outcome) == FALSE

\* main, Step 1 (hard): run_step re-raises every exception and main's
\* "except Exception" ends the run with sys.exit(1).
Step1Aborts(outcome) == outcome # "ok"

\* main with no warning printed.
SoftStepNeverWarns(ok) == FALSE

\* main, Step 2 / Step 3 (soft): "if not ok2: print('[WARNING] Step 2 failed.
\* Continuing. ...')"
SoftStepWarns(ok) == ~ok

\* subprocess.run of step s has returned or raised: what run_step /
\* run_step_soft leave in the history.
StepReturned(s, outcome, captured, logs) ==
    [dh EXCEPT !.returned = Append(@, s),
               !.captured[s] = captured,
               !.failed = IF outcome = "ok" THEN @ ELSE @ \cup {s},
               !.logged = @ \cup {<<s, stream>> : stream \in logs},
               !.warned = IF s # 1 /\ SoftStepWarns(outcome = "ok")
                          THEN @ \cup {s} ELSE @]

\* main, Step 1: run_step("Step 1: Folder Structure Creation", ...) starts
\* folder_bootloader.py --deploy.
DeployStep1 ==
    /\ dpc = "step1"
    /\ dpc' = "step1_run"
    /\ dh' = StepStarted(1)
    /\ UNCHANGED <<supervisor, rootFiles, uv, installer, dargs, dexit, codes>>

DeployStep1Return ==
    /\ dpc = "step1_run"
    /\ \E outcome \in Outcomes, captured \in SUBSET Streams :
          /\ outcome = "OSError" => captured = {}
          /\ LET hist == StepReturned(1, outcome, captured,
                                      RunStepLogs(outcome, captured))
             IN  IF Step1Aborts(outcome)
                 THEN DeployExit(1, [hist EXCEPT !.cause = "step1"])
                 ELSE /\ dpc' = "step2"
                      /\ dh' = hist
                      /\ UNCHANGED <<dexit, codes>>
    /\ UNCHANGED <<supervisor, rootFiles, uv, installer, dargs>>

\* main, Step 2: "if not skip_env and step2_present: run_step_soft(...)"
\* starts python_env_bootloader.py --deploy --verbose; else the step is skipped.
DeployStep2 ==
    /\ dpc = "step2"
    /\ IF ~dargs.skip_env /\ dargs.step2_present
       THEN /\ dpc' = "step2_run"
            /\ dh' = StepStarted(2)
            /\ InstallerBegin
       ELSE /\ dpc' = "step3"
            /\ UNCHANGED <<dh, installer, scaffold>>
    /\ UNCHANGED <<supervisor, resolution, flaskPid, race, monitor, construction, pyproject, uv, dargs, dexit, codes>>

\* The installer has exited: run_step_soft returns True for return code 0 and
\* False otherwise. The installer prints to stdout in every run.
DeployStep2Return ==
    /\ dpc = "step2_run"
    /\ ipc = "exited"
    /\ \E err \in BOOLEAN :
          LET outcome == IF irc = 0 THEN "ok" ELSE "CalledProcessError"
              captured == {"stdout"} \cup (IF err THEN {"stderr"} ELSE {})
              hist == StepReturned(2, outcome, captured,
                                   RunStepSoftLogs(outcome, captured))
          IN  dh' = [hist EXCEPT !.installer = ih.cause]
    /\ dpc' = "step3"
    /\ ipc' = "idle"
    /\ irc' = -1
    /\ ih' = NoInstallerHistory
    /\ UNCHANGED <<supervisor, rootFiles, uv, python_exe, reqs, created, dargs, dexit, codes>>

\* main, Step 3: "if not skip_frontend and step3_present: run_step_soft(...)"
\* starts vite_bootloader.py --deploy --verbose; else the step is skipped.
DeployStep3 ==
    /\ dpc = "step3"
    /\ IF ~dargs.skip_frontend /\ dargs.step3_present
       THEN /\ dpc' = "step3_run"
            /\ dh' = StepStarted(3)
       ELSE /\ dpc' = "complete"
            /\ UNCHANGED dh
    /\ UNCHANGED <<supervisor, rootFiles, uv, installer, dargs, dexit, codes>>

DeployStep3Return ==
    /\ dpc = "step3_run"
    /\ \E outcome \in Outcomes, captured \in SUBSET Streams :
          /\ outcome = "OSError" => captured = {}
          /\ dh' = StepReturned(3, outcome, captured,
                                RunStepSoftLogs(outcome, captured))
    /\ dpc' = "complete"
    /\ UNCHANGED <<supervisor, rootFiles, uv, installer, dargs, dexit, codes>>

\* main: print "DEPLOYMENT COMPLETE" and the summary; main returns, the
\* interpreter exits with code 0.
DeployComplete ==
    /\ dpc = "complete"
    /\ DeployExit(0, [dh EXCEPT !.complete = TRUE])
    /\ UNCHANGED <<supervisor, rootFiles, uv, installer, dargs>>

\* Where a deploy.py run is inside main.
DeploySteps == {"check_requirements", "check_local_files", "step1", "step1_run",
                "step2", "step2_run", "step3", "step3_run", "complete"}

\* Ctrl-C: KeyboardInterrupt is no Exception, so neither main's "except
\* Exception" nor run_step_soft catches it; __main__'s "except
\* KeyboardInterrupt" prints "[ABORTED]" and calls sys.exit(1). subprocess.run
\* kills the step's subprocess before it re-raises.
DeployInterrupt ==
    /\ dpc \in DeploySteps
    /\ DeployExit(1, [dh EXCEPT !.cause = "interrupt"])
    /\ IF ipc # "idle"
       THEN /\ ipc' = "idle"
            /\ irc' = -1
            /\ ih' = NoInstallerHistory
            /\ UNCHANGED <<python_exe, reqs, created>>
       ELSE UNCHANGED installer
    /\ UNCHANGED <<supervisor, rootFiles, uv, dargs>>

\* The deploy.py process is gone.
DeployOver ==
    /\ dpc \in {"done", "failed"}
    /\ dpc' = "idle"
    /\ dargs' = NoDeployArgs
    /\ dexit' = -1
    /\ dh' = NoDeployHistory
    /\ UNCHANGED <<supervisor, rootFiles, uv, installer, codes>>

Deploy ==
    \/ DeployMain \/ DeployCheckRequirements \/ DeployCheckLocalFiles
    \/ DeployStep1 \/ DeployStep1Return \/ DeployStep2 \/ DeployStep2Return
    \/ DeployStep3 \/ DeployStep3Return \/ DeployComplete \/ DeployInterrupt
    \/ DeployOver

\* ========================================================= deployment root
\* A path as pathlib holds it: absolute or not, and its segments; ".."
\* segments are kept until resolve().
Unset == [set |-> FALSE, abs |-> FALSE, segs |-> <<>>]
PathOf(abs, segs) == [set |-> TRUE, abs |-> abs, segs |-> segs]

\* Path.parent: the path without its last segment; the parent of "/" is "/"
\* and the parent of "." is ".".
PathParent(p) == IF p.segs = <<>> THEN p ELSE [p EXCEPT !.segs = Parent(p.segs)]

\* Path.resolve(): the path made absolute from the current directory, ".."
\* segments collapsed (".." of "/" is "/"). Symbolic links are not modelled.
RECURSIVE Collapse(_, _)
Collapse(done, segs) ==
    IF segs = <<>> THEN done
    ELSE IF Head(segs) = ".."
    THEN Collapse(IF done = <<>> THEN <<>> ELSE Parent(done), Tail(segs))
    ELSE Collapse(Append(done, Head(segs)), Tail(segs))
Resolve(p, c) == Collapse(<<>>, IF p.abs THEN p.segs ELSE c \o p.segs)

\* FolderBootloader.__init__: "if vela_target: core_path.parent.parent.parent
\* .parent, else Path.cwd()"; the directory the result names.
FolderProjectRoot(hd, c) ==
    IF ~hd.set \/ (hd.segs = <<>> /\ ~hd.abs) THEN c
    ELSE Resolve(PathParent(PathParent(PathParent(PathParent(hd)))), c)

\* resolve_deployment_root (python_env_bootloader.py, and the same text in
\* vite_bootloader.py): "p = Path(core_dir).resolve(); try: return
\* p.parents[3] except IndexError: pass; return Path.cwd().resolve()". An
\* absolute path of n segments has n parents.
ResolveDeploymentRoot(hd, c) ==
    LET p == Resolve(hd, c)
    IN  IF ~hd.set \/ (hd.segs = <<>> /\ ~hd.abs) \/ Len(p) < 4 THEN c
        ELSE SubSeq(p, 1, Len(p) - 4)

Unresolved == [folder |-> <<"?">>, env |-> <<"?">>, vite |-> <<"?">>]

\* FolderBootloader(config_path) of Step 1.
FolderResolves ==
    /\ roots.folder = <<"?">>
    /\ roots' = [roots EXCEPT !.folder = FolderProjectRoot(core_dir, cwd)]
    /\ UNCHANGED <<supervisor, uv, installer, deployer, codes, pyproject, scaffold,
                   flaskPid, race, monitor, construction, core_dir, cwd>>

\* main of Step 2: root = resolve_deployment_root()
EnvResolves ==
    /\ roots.env = <<"?">>
    /\ roots' = [roots EXCEPT !.env = ResolveDeploymentRoot(core_dir, cwd)]
    /\ UNCHANGED <<supervisor, uv, installer, deployer, codes, pyproject, scaffold,
                   flaskPid, race, monitor, construction, core_dir, cwd>>

\* main of Step 3: root = resolve_deployment_root()
ViteResolves ==
    /\ roots.vite = <<"?">>
    /\ roots' = [roots EXCEPT !.vite = ResolveDeploymentRoot(core_dir, cwd)]
    /\ UNCHANGED <<supervisor, uv, installer, deployer, codes, pyproject, scaffold,
                   flaskPid, race, monitor, construction, core_dir, cwd>>

\* ================================================== concurrent invocations
\* The orchestrator processes that may run at the same time.
Invocations == 1..2

NoInvocation ==
    [pc |-> "idle", op |-> "none", flask_only |-> FALSE, vite_only |-> FALSE,
     cur |-> "none", child |-> NoPid, P |-> <<>>, idx |-> 1, spawned |-> None]

\* What an invocation leaves alone: the single-run orchestrator and the
\* deployment.
aside == <<host, runDir, pidDir, fvbPidDir, fvbProcesses, op, pc, args, locals, exit, h,
           uv, installer, deployer, codes, pyproject, scaffold, resolution, flaskPid,
           monitor, construction>>

CoBusy(i) == inv[i].pc \notin {"idle", "done"}

\* _write_pid that writes {kind: pid} alone.
WritePidAlone(P0, kind, pid) == File(Dumps(DictSet(<<>>, kind, pid)))

\* _write_pid: "P[kind] = pid; PIDF.write_text(json.dumps(P))" on the dict P0
\* it has read
WritePidMerge(P0, kind, pid) == File(Dumps(DictSet(P0, kind, pid)))

\* python start_server.py [--flask-only] [--vite-only] in a process of its own
CoMain(i, flask_only, vite_only) ==
    /\ inv[i].pc = "idle"
    /\ inv' = [inv EXCEPT ![i] = [NoInvocation EXCEPT
                  !.pc = IF vite_only THEN "main_vite" ELSE "probe",
                  !.op = "start", !.flask_only = flask_only, !.vite_only = vite_only,
                  !.cur = IF vite_only THEN "none" ELSE "backend"]]
    /\ overlap' = (overlap \/ \E j \in Invocations \ {i} : CoBusy(j))
    /\ UNCHANGED <<aside, proc, pidsJson>>

\* _start_flask / _start_vite: existing = _read_pid(kind); if existing:
\* return existing
CoProbe(i) ==
    /\ inv[i].pc = "probe"
    /\ LET n == inv[i].cur
           existing == V2ReadPid(Key(n))
       IN  inv' = [inv EXCEPT ![i].pc =
                      IF existing = NoPid THEN (IF n = "backend" THEN "popen" ELSE "npm")
                      ELSE IF n = "backend" THEN "main_vite" ELSE "done"]
    /\ UNCHANGED <<aside, proc, pidsJson, overlap>>

\* _start_vite: no npm -> return None; _npm_install_if_needed fails -> return
\* None
CoNpm(i) ==
    /\ inv[i].pc = "npm"
    /\ \E npm \in BOOLEAN, package_json \in BOOLEAN, node_modules \in BOOLEAN,
          rc0 \in BOOLEAN :
          LET r == V2NpmInstallIfNeeded(package_json, node_modules, rc0)
          IN  inv' = [inv EXCEPT ![i].pc = IF npm /\ r \in {"ready", "installed"}
                                          THEN "popen" ELSE "done"]
    /\ UNCHANGED <<aside, proc, pidsJson, overlap>>

\* p = subprocess.Popen(cmd, **kwargs)
CoPopen(i) ==
    /\ inv[i].pc = "popen"
    /\ \E pid \in PIDs :
          /\ proc[pid] = "none"
          /\ proc' = [proc EXCEPT ![pid] = inv[i].cur]
          /\ inv' = [inv EXCEPT ![i].pc = "write_read", ![i].child = pid,
                                ![i].spawned[inv[i].cur] = pid]
    /\ UNCHANGED <<aside, pidsJson, overlap>>

\* _write_pid: P = json.loads(PIDF.read_text()) if PIDF.exists() else {}
CoWritePidRead(i) ==
    /\ inv[i].pc = "write_read"
    /\ inv' = [inv EXCEPT ![i].pc = "write",
                          ![i].P = IF pidsJson.exists THEN Loads(pidsJson.text) ELSE <<>>]
    /\ UNCHANGED <<aside, proc, pidsJson, overlap>>

\* _write_pid: P[kind] = pid; PIDF.write_text(json.dumps(P)). The read-back
\* loop that follows touches neither the registry nor the process table.
CoWritePidWrite(i) ==
    /\ inv[i].pc = "write"
    /\ pidsJson' = WritePidMerge(inv[i].P, Key(inv[i].cur), inv[i].child)
    /\ inv' = [inv EXCEPT ![i].pc = IF inv[i].cur = "backend" THEN "main_vite" ELSE "done",
                          ![i].P = <<>>, ![i].child = NoPid]
    /\ UNCHANGED <<aside, proc, overlap>>

\* main: _wait_health() after _start_flask(); "if not a.flask_only:
\* _start_vite()"; else Done
CoMainVite(i) ==
    /\ inv[i].pc = "main_vite"
    /\ inv' = [inv EXCEPT ![i].pc = IF inv[i].flask_only THEN "done" ELSE "probe",
                          ![i].cur = IF inv[i].flask_only THEN "none" ELSE "frontend"]
    /\ UNCHANGED <<aside, proc, pidsJson, overlap>>

\* python stop_servers.py in a process of its own: P = json.loads(...)
CoStopLoad(i) ==
    /\ inv[i].pc = "idle"
    /\ inv' = [inv EXCEPT ![i] = [NoInvocation EXCEPT
                  !.pc = "stop_loop", !.op = "stop",
                  !.P = IF pidsJson.exists THEN Loads(pidsJson.text) ELSE <<>>]]
    /\ overlap' = (overlap \/ \E j \in Invocations \ {i} : CoBusy(j))
    /\ UNCHANGED <<aside, proc, pidsJson>>

\* __main__ of stop_servers.py: one turn of "for key in [...]"
CoStopKey(i) ==
    /\ inv[i].pc = "stop_loop"
    /\ inv[i].idx <= Len(V2StopOrder)
    /\ LET n == V2StopOrder[inv[i].idx]
           pid == DictGet(inv[i].P, Key(n))
       IN  /\ proc' = IF pid # NoPid THEN Killed(pid) ELSE proc
           /\ inv' = [inv EXCEPT ![i].idx = @ + 1,
                                 ![i].P = IF pid # NoPid THEN DictPop(@, Key(n)) ELSE @]
    /\ UNCHANGED <<aside, pidsJson, overlap>>

\* __main__ of stop_servers.py: PIDF.write_text(json.dumps(P))
CoStopSave(i) ==
    /\ inv[i].pc = "stop_loop"
    /\ inv[i].idx > Len(V2StopOrder)
    /\ pidsJson' = File(Dumps(inv[i].P))
    /\ inv' = [inv EXCEPT ![i].pc = "done", ![i].P = <<>>, ![i].idx = 1]
    /\ UNCHANGED <<aside, proc, overlap>>

\* =========================================================== configuration
\* The paths --config names in the runs considered, the first its default.
ConfigPaths == {"bootloader_config.json", "custom.json"}

\* A configuration file as open / json.load find it: it exists, its bytes
\* decode as UTF-8, the text parses as JSON, and the object parsed holds
\* application.name.
ConfigFile(exists, utf8, json, application) ==
    [exists |-> exists, utf8 |-> utf8, json |-> json, application |-> application]
ConfigFiles ==
    {ConfigFile(e, u, j, a) : e \in BOOLEAN, u \in BOOLEAN, j \in BOOLEAN, a \in BOOLEAN}
    \cap {f \in [exists : BOOLEAN, utf8 : BOOLEAN, json : BOOLEAN, application : BOOLEAN] :
            /\ f.utf8 => f.exists
            /\ f.json => f.utf8
            /\ f.application => f.json}

NoBoot == [loader |-> "none", pc |-> "idle", path |-> "bootloader_config.json",
           logger |-> FALSE, config |-> "none", error |-> "none", log |-> {}]

\* What a constructor leaves alone.
backstage == <<supervisor, uv, installer, deployer, codes, pyproject, scaffold,
               resolution, flaskPid, race, monitor>>

\* _load_config: "try: with open(self.config_path) as f: return
\* json.load(f)"; FileNotFoundError and json.JSONDecodeError are caught: a
\* message is logged through the logger (AttributeError when the object has
\* none yet) and _default_config() is returned. Reading bytes that do not
\* decode raises UnicodeDecodeError, which is not caught.
LoadConfig(f, logger) ==
    IF f.exists /\ ~f.utf8
    THEN [config |-> "none", error |-> "UnicodeDecodeError", log |-> {}]
    ELSE IF f.exists /\ f.json
    THEN [config |-> "loaded", error |-> "none", log |-> {}]
    ELSE IF ~logger
    THEN [config |-> "none", error |-> "AttributeError", log |-> {}]
    ELSE [config |-> "default", error |-> "none",
          log |-> {IF f.exists THEN "Invalid JSON in config file"
                   ELSE "not found, using defaults"}]

\* FolderBootloader.__init__ up to "self.config = self._load_config()": the
\* logger is log, of the module.
FolderInit ==
    /\ boot.pc = "idle"
    /\ \E config_path \in ConfigPaths :
          boot' = [NoBoot EXCEPT !.loader = "folder", !.pc = "load",
                                 !.path = config_path, !.logger = TRUE]
    /\ UNCHANGED <<backstage, configs>>

\* PillarBootloader.__init__ up to "self.config = self._load_config()":
\* self.logger is assigned further down.
PillarInit ==
    /\ boot.pc = "idle"
    /\ \E config_path \in ConfigPaths :
          boot' = [NoBoot EXCEPT !.loader = "pillar", !.pc = "load",
                                 !.path = config_path, !.logger = FALSE]
    /\ UNCHANGED <<backstage, configs>>

\* self.config = self._load_config(); an exception leaves the constructor.
BootLoadConfig ==
    /\ boot.pc = "load"
    /\ LET r == LoadConfig(configs[boot.path], boot.logger)
       IN  boot' = [boot EXCEPT !.config = r.config, !.error = r.error, !.log = r.log,
                                !.pc = IF r.error # "none" THEN "raised"
                                       ELSE IF boot.loader = "folder" THEN "app_name"
                                       ELSE "logging"]
    /\ UNCHANGED <<backstage, configs>>

\* FolderBootloader.__init__: self.app_name =
\* self.config["application"]["name"]; self.logger = log
FolderAppName ==
    /\ boot.pc = "app_name"
    /\ boot' = IF boot.config = "loaded" /\ ~configs[boot.path].application
               THEN [boot EXCEPT !.pc = "raised", !.error = "KeyError"]
               ELSE [boot EXCEPT !.pc = "constructed"]
    /\ UNCHANGED <<backstage, configs>>

\* PillarBootloader.__init__: logging.basicConfig(...); self.logger =
\* logging.getLogger(__name__); the signal handlers
PillarLogging ==
    /\ boot.pc = "logging"
    /\ boot' = [boot EXCEPT !.pc = "constructed", !.logger = TRUE]
    /\ UNCHANGED <<backstage, configs>>

\* The process of the bootloader is over.
BootOver ==
    /\ boot.pc \in {"constructed", "raised"}
    /\ boot' = NoBoot
    /\ UNCHANGED <<backstage, configs>>

\* ==================================================== health-monitor thread
\* What the threads of a FlaskViteBootloader leave alone.
offstage == <<host, pidsJson, runDir, pidDir, op, args, child, cur, lines, clock, P,
              uv, installer, deployer, codes, pyproject, scaffold, resolution, flaskPid,
              race, construction>>

\* The main thread is inside the process that deployed: sleeping in "while
\* True", or in _signal_handler.
FvbAlive == pc \in {"fvb_serving", "fvb_stop", "fvb_stop_loop", "fvb_stopped"}

\* deploy: _start_health_monitor() when health_check_enabled: the thread
\* starts. self.running is True since _start_services; nothing reads it
\* before this thread does.
MonStart ==
    /\ pc = "fvb_serving"
    /\ args.health_check_enabled
    /\ monitor.pc = "none"
    /\ monitor' = [monitor EXCEPT !.pc = "while", !.running = TRUE]
    /\ UNCHANGED <<offstage, proc, fvbPidDir, fvbProcesses, pc, idx, exit, h>>

\* health_check: "while self.running:"
MonWhile ==
    /\ FvbAlive
    /\ monitor.pc = "while"
    /\ monitor' = [monitor EXCEPT !.pc = IF monitor.running THEN "backend" ELSE "ended"]
    /\ UNCHANGED <<offstage, proc, fvbPidDir, fvbProcesses, pc, idx, exit, h>>

\* The place of key k in the dict P0, 0 when it holds no such key.
DictIndex(P0, k) == IF DictHas(P0, k) THEN CHOOSE i \in 1..Len(P0) : P0[i][1] = k ELSE 0

\* _check_service_health: the probe of one service and, when it fails with
\* restart_on_failure, _restart_service. An entry deleted from
\* self.processes behind the iterator of stop moves the entries after it
\* one place down.
MonProbe ==
    /\ FvbAlive
    /\ monitor.pc \in Names
    /\ \E healthy \in BOOLEAN, dir \in BOOLEAN, pid \in PIDs :
          LET n == monitor.pc
              st0 == [proc |-> proc, pidDir |-> fvbPidDir,
                      processes |-> fvbProcesses, h |-> h]
              st1 == FvbProbe(st0, n, healthy, dir, pid)
              restarts == ~healthy /\ args.restart_on_failure
              at == DictIndex(fvbProcesses, n)
          IN  /\ FvbProbeInput(st0, n, healthy, dir, pid)
              /\ proc' = st1.proc
              /\ fvbPidDir' = st1.pidDir
              /\ fvbProcesses' = st1.processes
              /\ h' = st1.h
              /\ idx' = IF pc = "fvb_stop_loop" /\ restarts /\ at # 0 /\ at < idx
                        THEN idx - 1 ELSE idx
              /\ monitor' = [monitor EXCEPT
                                !.pc = IF n = "backend" THEN "frontend" ELSE "sleep",
                                !.late = @ \/ (monitor.returned /\ restarts /\ dir)]
    /\ UNCHANGED <<offstage, pc, exit>>

\* health_check: time.sleep(health_check_interval)
MonSleep ==
    /\ FvbAlive
    /\ monitor.pc = "sleep"
    /\ monitor' = [monitor EXCEPT !.pc = "while"]
    /\ UNCHANGED <<offstage, proc, fvbPidDir, fvbProcesses, pc, idx, exit, h>>

\* stop: self.running = False; "for service_name, process in
\* self.processes.items()" makes its iterator
FvbStopBegin ==
    /\ pc = "fvb_stop"
    /\ op = "start"
    /\ pc' = "fvb_stop_loop"
    /\ idx' = 1
    /\ monitor' = [monitor EXCEPT !.running = FALSE, !.size = Len(fvbProcesses)]
    /\ UNCHANGED <<offstage, proc, fvbPidDir, fvbProcesses, exit, h>>

\* stop: one turn of the loop. The iterator raises RuntimeError when the
\* dict has changed size, which leaves stop and ends the process with exit
\* code 1; otherwise process.terminate(); process.wait() of the next entry.
FvbStopOne ==
    /\ pc = "fvb_stop_loop"
    /\ IF Len(fvbProcesses) # monitor.size
       THEN /\ h' = [h EXCEPT !.log = @ \cup {Msg("Bootloader failed")}]
            /\ pc' = "failed" /\ exit' = 1 /\ idx' = 1
            /\ monitor' = [monitor EXCEPT !.pc = "ended"]
            /\ UNCHANGED proc
       ELSE /\ idx <= Len(fvbProcesses)
            /\ LET n == fvbProcesses[idx][1]
                   handle == fvbProcesses[idx][2]
                   running == handle # NoPid /\ proc[handle] = n
               IN  /\ proc' = IF running THEN [proc EXCEPT ![handle] = "none"] ELSE proc
                   /\ h' = IF running
                           THEN [h EXCEPT !.sig = Append(@, <<n, handle>>),
                                          !.outcome[n] = "terminated"]
                           ELSE h
            /\ idx' = idx + 1
            /\ UNCHANGED <<pc, exit, monitor>>
    /\ UNCHANGED <<offstage, fvbPidDir, fvbProcesses>>

\* stop: the loop is over; self.processes.clear(); stop returns
FvbStopClear ==
    /\ pc = "fvb_stop_loop"
    /\ Len(fvbProcesses) = monitor.size
    /\ idx > Len(fvbProcesses)
    /\ fvbProcesses' = <<>>
    /\ h' = [h EXCEPT !.log = @ \cup {Msg("All services stopped")}]
    /\ pc' = "fvb_stopped"
    /\ idx' = 1
    /\ monitor' = [monitor EXCEPT !.returned = TRUE]
    /\ UNCHANGED <<offstage, proc, fvbPidDir, exit>>

\* _signal_handler: sys.exit(0) after self.stop(): the process ends, and its
\* daemon thread with it
FvbSignalExit ==
    /\ pc = "fvb_stopped"
    /\ pc' = "done" /\ exit' = 0
    /\ monitor' = [monitor EXCEPT !.pc = "ended"]
    /\ UNCHANGED <<offstage, proc, fvbPidDir, fvbProcesses, idx, h>>

\* ================================================= dependency declarations
\* pyproject.toml: absent, or present with its project.dependencies.
NoProject == [exists |-> FALSE, dependencies |-> <<>>]
ProjectToml(deps) == [exists |-> TRUE, dependencies |-> deps]

\* FlaskPillar.__init__: add_dependency appends package + version.
FlaskPillarDeps == <<"flask>=3.0.0", "gunicorn>=21.0.0", "flask-cors>=4.0.0">>

\* sorted(list(all_dependencies)): "-" sorts before ">".
Sorted(S) ==
    SelectSeq(<<"flask-cors>=4.0.0", "flask>=3.0.0", "gunicorn>=21.0.0">>,
              LAMBDA d : d \in S)

\* PillarBootloader.merge_project_toml: the file is loaded, or made new;
\* when the pillars have dependencies (the Flask pillar is enabled; the Vite
\* pillar has none) project.dependencies is set to their sorted union; the
\* file is written.
MergeProjectToml(pp, flask) ==
    LET all_dependencies == IF flask THEN Range(FlaskPillarDeps) ELSE {}
    IN  ProjectToml(IF all_dependencies # {} THEN Sorted(all_dependencies)
                    ELSE pp.dependencies)

\* PillarBootloader.deploy: initialize_pillars, generate_pillar_tomls,
\* merge_project_toml.
PillarMergeProjectToml ==
    /\ ipc = "idle" /\ dpc = "idle"
    /\ \E flask \in BOOLEAN : pyproject' = MergeProjectToml(pyproject, flask)
    /\ UNCHANGED <<supervisor, scaffold, resolution, flaskPid, race, monitor, construction, uv, installer, deployer,
                   codes>>

\* config['backend']['dependencies'] of bootloader_config.json.
ConfigDependencies == {<<>>, << <<"flask">> >>, << <<"flask">>, <<"gunicorn">> >>}

\* FlaskViteBootloader._install_dependencies, backend part: "uv sync
\* --frozen"; when uv is not found or fails, requirements.txt is written
\* from the configuration ('\n'.join, no final newline) and installed by pip.
FvbRequirements(f, deps, synced) == IF synced THEN f ELSE TextFile(deps, FALSE)

\* FlaskViteBootloader.deploy up to _install_dependencies
\* (_create_directories has made backend_dir).
FvbInstallDependencies ==
    /\ ipc = "idle" /\ dpc = "idle"
    /\ \E deps \in ConfigDependencies, synced \in BOOLEAN :
          /\ synced => uv
          /\ reqs' = FvbRequirements(reqs, deps, synced)
    /\ UNCHANGED <<supervisor, rootFiles, uv, python_exe, created, ipc, irc, ih,
                   deployer, codes>>

\* ----------------------------------------------------------- specifications
\* A fresh root on which nothing of the deployment has run: whether uv is on
\* the PATH, and the requirements.txt the user put there.
\* No health-monitor thread has been started.
NoMonitor == [pc |-> "none", running |-> FALSE, size |-> 0, returned |-> FALSE,
              late |-> FALSE]

\* VELA_CORE_DIR is not set: every step works in the current directory.
NoHandle == core_dir = Unset /\ cwd = <<"srv", "app">> /\ roots = Unresolved

\* No step has run on the root.
FreshSteps(u, f) ==
    /\ uv = u
    /\ python_exe = FALSE
    /\ reqs = f
    /\ created = 0
    /\ ipc = "idle" /\ irc = -1 /\ ih = NoInstallerHistory
    /\ dpc = "idle" /\ dargs = NoDeployArgs /\ dexit = -1 /\ dh = NoDeployHistory
    /\ codes = {}
    /\ flaskPid = Absent
    /\ inv = [i \in Invocations |-> NoInvocation]
    /\ overlap = FALSE
    /\ monitor = NoMonitor
    /\ boot = NoBoot

\* No step has run, and the root holds no configuration file.
FreshDeployment(u, f) ==
    /\ FreshSteps(u, f)
    /\ configs = [p \in ConfigPaths |-> ConfigFile(FALSE, FALSE, FALSE, FALSE)]

\* A fresh root that has no pyproject.toml.
Fresh(u, f) ==
    /\ FreshDeployment(u, f)
    /\ pyproject = NoProject
    /\ tree = NoTree /\ dirs = {} /\ fh = NoFolderHistory
    /\ NoHandle

\* No supervisor script has run.
SupervisorInit(variants) ==
    /\ variant \in variants
    /\ osName \in {"posix", "nt"}
    /\ proc = [p \in PIDs |-> "none"]
    /\ pidsJson = Absent
    /\ runDir = [n \in Names |-> Absent]
    /\ pidDir = [n \in Names |-> Absent]
    /\ fvbPidDir = [n \in Names |-> Absent]
    /\ fvbProcesses = <<>>
    /\ op = "none" /\ pc = "idle" /\ args = NoArgs
    /\ child = NoPid /\ cur = "none" /\ lines = 0 /\ clock = 0
    /\ P = <<>> /\ idx = 1 /\ exit = -1
    /\ h = NoHistory

\* The supervisor on a root whose deployment is not looked at.
InitWith(variants) == SupervisorInit(variants) /\ Fresh(FALSE, NoFile)

V2Start ==
    \/ \E f \in BOOLEAN, v \in BOOLEAN : V2Main(f, v)
    \/ V2StartFlaskProbe \/ V2StartFlaskPopen \/ V2StartFlaskWrite
    \/ V2StartFlaskRead \/ V2WaitHealth \/ V2MainVite
    \/ V2StartViteProbe \/ V2StartViteNpm \/ V2StartVitePopen
    \/ V2StartViteWrite \/ V2StartViteRead \/ V2MainDone

V2Stop == V2StopLoad \/ V2StopKey \/ V2StopSave

CbStart ==
    \/ CbMain \/ CbStartFlaskProbe \/ CbStartFlaskPopen \/ CbStartFlaskWrite
    \/ CbStartFlaskRead \/ CbStartViteProbe \/ CbStartVitePopen
    \/ CbStartViteWrite \/ CbStartViteRead \/ CbMainDone

CbStop == CbStopMain \/ CbStopPid \/ CbStopDone

UnStart ==
    \/ UnMain \/ UnMainCheck \/ UnRunFlaskPopen \/ UnRunFlaskWrite
    \/ UnRunFlaskRead

UnStop == UnStopMain \/ UnKillPidfile \/ UnStopDone

Fvb ==
    \/ FvbDeploy \/ FvbPrepare \/ FvbStartBackend \/ FvbStartFrontend
    \/ FvbCheckServiceHealth \/ FvbSignal \/ FvbStop \/ FvbStopAll

Init == InitWith({"v2", "combined", "unified", "fvb"})

Next ==
    \/ V2Start \/ V2Stop \/ CbStart \/ CbStop \/ UnStart \/ UnStop \/ Fvb
    \/ Environment

Spec == Init /\ [][Next]_vars

\* The steps of a start() run that wait for nothing outside the script.
StartCompute ==
    \/ V2StartFlaskProbe \/ V2StartFlaskPopen \/ V2StartFlaskWrite
    \/ V2WaitHealth \/ V2MainVite
    \/ V2StartViteProbe \/ V2StartViteNpm \/ V2StartVitePopen
    \/ V2StartViteWrite \/ V2MainDone
    \/ CbStartFlaskProbe \/ CbStartFlaskPopen \/ CbStartFlaskWrite
    \/ CbStartViteProbe \/ CbStartVitePopen \/ CbStartViteWrite \/ CbMainDone
    \/ UnMainCheck \/ UnRunFlaskPopen \/ UnRunFlaskWrite

\* readline() on the pipe of a child that has exited returns at once: the
\* lines still buffered, then "".
ReadOfExited ==
    /\ pc \in ReadLoops
    /\ proc[child] # cur
    /\ (V2StartFlaskRead \/ V2StartViteRead \/ CbStartFlaskRead \/ CbStartViteRead
          \/ UnRunFlaskRead)

\* The supervisors with the scheduling of a start() run: the script goes on
\* whenever it can; readline() on the pipe of a live child blocks until the
\* child writes a line, which nothing guarantees.
StartSpec == Init /\ [][Next]_vars /\ WF_vars(StartCompute) /\ WF_vars(ReadOfExited)

\* The supervisors under start(), stop() and crashes of processes only: no
\* run is killed, no PID is handed out again, no health monitor runs.
CalmNext ==
    \/ V2Start \/ V2Stop \/ CbStart \/ CbStop \/ UnStart \/ UnStop
    \/ FvbDeploy \/ FvbPrepare \/ FvbStartBackend \/ FvbStartFrontend
    \/ FvbSignal \/ FvbStop \/ FvbStopAll
    \/ RunOver
    \/ \E pid \in PIDs : ProcExit(pid)

CalmSpec == Init /\ [][CalmNext]_vars

\* The life of a root: the three steps run by hand in any order (Step 2 with
\* or without --start-now), and start() / stop() runs of the scripts of one
\* family whenever that family is the one installed; one program at a time,
\* on a POSIX host. (Step 3 with --start-now launches the installed
\* start_server.py: a start() run.) No process exits by itself but the
\* backend of the unified start_server.py, whose start() returns only then.
LifecycleInit ==
    /\ SupervisorInit({"v2", "combined", "unified"})
    /\ osName = "posix"
    /\ Fresh(FALSE, NoFile)

LifecycleNext ==
    \/ pc = "idle" /\ FolderMain
    \/ pc = "idle" /\ InstallerWith({{}}, BOOLEAN)
    \/ pc = "idle" /\ ViteMain
    \/ /\ ipc = "idle"
       /\ pc = "idle" => tree[StartPy] = variant
       /\ (V2Start \/ V2Stop \/ CbStart \/ CbStop \/ UnStart \/ UnStop)
    \/ RunOver
    \/ pc = "un_read" /\ ProcExit(child)

LifecycleSpec == LifecycleInit /\ [][LifecycleNext]_vars

\* Two invocations of the V2 scripts on one root, one after the other or at
\* the same time, their steps interleaved in every way, while managed
\* processes may crash.
RaceInit == SupervisorInit({"v2"}) /\ Fresh(FALSE, NoFile)

RaceNext ==
    \/ \E i \in Invocations :
          \/ \E f \in BOOLEAN, v \in BOOLEAN : CoMain(i, f, v)
          \/ CoProbe(i) \/ CoNpm(i) \/ CoPopen(i) \/ CoWritePidRead(i)
          \/ CoWritePidWrite(i) \/ CoMainVite(i)
          \/ CoStopLoad(i) \/ CoStopKey(i) \/ CoStopSave(i)
    \/ \E pid \in PIDs : ProcExit(pid)

RaceSpec == RaceInit /\ [][RaceNext]_vars

\* One deployment of a FlaskViteBootloader, its health-monitor thread running
\* beside the main thread, stopped by a signal.
MonitorInit == SupervisorInit({"fvb"}) /\ osName = "posix" /\ Fresh(FALSE, NoFile)

MonitorNext ==
    \/ FvbDeploy \/ FvbPrepare \/ FvbStartBackend \/ FvbStartFrontend
    \/ FvbSignal
    \/ MonStart \/ MonWhile \/ MonProbe \/ MonSleep
    \/ FvbStopBegin \/ FvbStopOne \/ FvbStopClear \/ FvbSignalExit

MonitorSpec == MonitorInit /\ [][MonitorNext]_vars

\* The constructors of the two bootloaders on every state of the
\* configuration files.
ConfigInit ==
    /\ SupervisorInit({"v2"}) /\ osName = "posix"
    /\ FreshSteps(FALSE, NoFile)
    /\ pyproject = NoProject
    /\ tree = NoTree /\ dirs = {} /\ fh = NoFolderHistory
    /\ NoHandle
    /\ configs \in [ConfigPaths -> ConfigFiles]

ConfigNext ==
    \/ FolderInit \/ PillarInit \/ BootLoadConfig \/ FolderAppName \/ PillarLogging
    \/ BootOver

ConfigSpec == ConfigInit /\ [][ConfigNext]_vars

\* The deployment of a fresh root: deploy.py runs and installer runs by hand,
\* one at a time; the supervisor rests.
DeployInit == SupervisorInit({"v2"}) /\ \E u \in BOOLEAN : Fresh(u, NoFile)

DeployNext == Deploy \/ Installer

DeploySpec == DeployInit /\ [][DeployNext]_vars

\* The lines a requirements.txt found by the installer is made of.
ReqLines ==
    { <<"Flask", "=", "=", "2.0">>,
      <<" ", "flask", " ", ">", "=", "3", " ">>,
      <<"click", "<", "=", "9">>,
      <<"#", " ", "jinja2">>,
      <<"flask-cors", "~", "=", "4.0">>,
      <<"requests">>,
      <<>> }

\* The requirements.txt files of at most MaxReqLines lines.
ReqFiles ==
    {NoFile} \cup
    {TextFile(lns, eol) : lns \in UNION {[1..k -> ReqLines] : k \in 0..MaxReqLines},
                          eol \in BOOLEAN}

\* The installer run on a root where the user has put a requirements.txt.
ReqInit ==
    SupervisorInit({"v2"}) /\ \E u \in BOOLEAN, f \in ReqFiles : Fresh(u, f)

ReqSpec == ReqInit /\ [][Installer]_vars

\* The installer run in every environment in which up to MaxBroken must-have
\* packages fail to import.
VerifyInit == SupervisorInit({"v2"}) /\ \E u \in BOOLEAN : Fresh(u, NoFile)

VerifySpec == VerifyInit /\ [][InstallerOn(BrokenSets)]_vars

\* The requirements.txt and pyproject.toml a user may have written.
DeclFiles == {NoFile} \cup {TextFile(<<ln>>, TRUE) : ln \in ReqLines}
DeclProjects == {NoProject, ProjectToml(<<>>), ProjectToml(<<"requests">>),
                 ProjectToml(<<"flask>=3.0.0">>)}

\* The programs that write a dependency declaration file, run one after the
\* other on a root.
DeclInit ==
    /\ SupervisorInit({"fvb"})
    /\ \E u \in BOOLEAN, f \in DeclFiles : FreshDeployment(u, f)
    /\ pyproject \in DeclProjects
    /\ tree = NoTree /\ dirs = {} /\ fh = NoFolderHistory
    /\ NoHandle

DeclNext == Installer \/ FvbInstallDependencies \/ PillarMergeProjectToml

DeclSpec == DeclInit /\ [][DeclNext]_vars

\* The files the user may have put under the root before the first run:
\* one that only Step 1 writes, one that two steps write, the scripts that
\* all three write.
UserPaths == {<<"docs", "README.md">>, <<"backend", "app", "main.py">>,
              <<"frontend", "src", "App.jsx">>, StartPy, StopPy}

\* The roots on which the user has put up to MaxUserFiles of these files.
UserTrees ==
    {[p \in ScaffoldPaths |-> IF p \in U THEN "user" ELSE "absent"] :
        U \in {V \in SUBSET UserPaths : Cardinality(V) <= MaxUserFiles}}

\* The three steps run by hand, in any order, any number of times.
ScaffoldInit ==
    /\ SupervisorInit({"v2"})
    /\ \E f \in {NoFile, TextFile(<< <<"requests">> >>, TRUE)} : FreshDeployment(FALSE, f)
    /\ pyproject = NoProject
    /\ tree \in UserTrees
    /\ dirs = UNION {Ancestors(p) : p \in {q \in ScaffoldPaths : tree[q] # "absent"}}
              \cup (IF reqs.exists THEN Ancestors(RequirementsTxt) ELSE {})
    /\ fh = NoFolderHistory
    /\ NoHandle

ScaffoldNext == FolderMain \/ Installer \/ ViteMain

ScaffoldSpec == ScaffoldInit /\ [][ScaffoldNext]_vars

\* The handles of at most MaxSegments segments, and the current directories.
Handles ==
    {Unset} \cup
    {PathOf(abs, segs) : abs \in BOOLEAN,
                         segs \in UNION {[1..k -> {"a", ".."}] : k \in 0..MaxSegments}}
Cwds == {<<"w">>, <<"srv", "app", "w", "x", "y">>}

\* The resolvers of the three steps applied to one handle.
ResolveInit ==
    /\ SupervisorInit({"v2"})
    /\ FreshDeployment(FALSE, NoFile)
    /\ pyproject = NoProject
    /\ tree = NoTree /\ dirs = {} /\ fh = NoFolderHistory
    /\ core_dir \in Handles
    /\ cwd \in Cwds
    /\ roots = Unresolved

ResolveNext == FolderResolves \/ EnvResolves \/ ViteResolves

ResolveSpec == ResolveInit /\ [][ResolveNext]_vars

\* ================================================================== claims
\* The generated start_server.py / stop_servers.py families.
Scripts == {"v2", "combined", "unified"}

\* A start / stop run has ended: it returned or an exception ended it.
Ended(o) == op = o /\ pc \in {"done", "failed"}

\* The names for which a run issued a termination.
Signalled == {h.sig[i][1] : i \in 1..Len(h.sig)}

\* C1: for each logical name, a start() called while the registry holds a PID
\* for it that the liveness probe reports alive spawns no process for that
\* name, leaves the registry entry unchanged and, once it has dealt with the
\* name, reports the existing PID; in every generated start script.
C1_StartIdempotent ==
    \A n \in Names :
        (variant \in Scripts /\ op = "start" /\ h.liveAtCall[n] # NoPid) =>
            /\ h.spawned[n] = NoPid
            /\ Registry(n) = h.liveAtCall[n]
            /\ (pc = "done" /\ h.outcome[n] # "none") => h.ret[n] = h.liveAtCall[n]

\* C2: the PID of a spawned child is in the registry from before the first
\* read of the child's output on (so in every state in which a line was read),
\* and killing the orchestrator during the read-back leaves it there.
C2_PidPersistedBeforeRead ==
    /\ [](pc \in ReadLoops => Registry(cur) = child)
    /\ [][\A n \in Names, p \in PIDs :
            (pc \in ReadLoops /\ cur = n /\ child = p /\ pc' = "killed")
                => Registry(n)' = p]_vars

\* C2 happens: a line of the child's output was read and its PID is registered.
C2_Witness == pc \in ReadLoops /\ lines >= 1 /\ Registry(cur) = child

\* C3: when a stop() of a generated stop script has ended, it has dealt with
\* both logical names, the entry of every name it issued a termination for is
\* gone whatever the kill call did, and the registry holds no entry.
C3_StopRemovesEntries ==
    (variant \in Scripts /\ Ended("stop")) =>
        /\ \A n \in Names : h.outcome[n] # "none"
        /\ \A n \in Signalled : Registry(n) = NoPid
        /\ \A n \in Names : Registry(n) = NoPid

\* C4: a generated stop script never deals with the backend before it has
\* dealt with the frontend (reverse start order).
C4_FrontendBeforeBackend ==
    (variant \in Scripts /\ op = "stop") =>
        (h.outcome["backend"] # "none" => h.outcome["frontend"] # "none")

\* C5: a stop() of a generated stop script that found no registry entry for
\* a logical name has sent no termination for that name and has reported the
\* no-op with a message; with no entry at all it has returned success.
C5_StopNoOpReported ==
    (variant \in Scripts /\ Ended("stop")) =>
        /\ \A n \in Names :
              h.regAtCall[n] = NoPid =>
                 /\ n \notin Signalled
                 /\ h.outcome[n] # "none" =>
                       \/ <<"no pid file", n>> \in h.log
                       \/ Msg("no pid files found") \in h.log
        /\ (\A n \in Names : h.regAtCall[n] = NoPid) => pc = "done" /\ exit = 0

\* C6: in a start() the registry maps every name written so far to the PID
\* last written for it (what was written as str(pid) reads back as pid), and
\* the write of one name's PID leaves the entry of the other name unchanged
\* (a pass of the health monitor can write both names: the frame is stated
\* for the name the step spawns no process for).
C6_RegistryRoundTripFrame ==
    /\ [](op = "start" => \A n \in h.wrote : Registry(n) = h.spawned[n])
    /\ [][\A n \in Names :
            (op = "start" /\ n \in h'.wrote \ h.wrote) =>
                /\ Registry(n)' = h'.spawned[n]
                /\ \A m \in Names \ {n} :
                      h'.spawned[m] = h.spawned[m] => Registry(m)' = Registry(m)]_vars

\* C6 happens: one start() of the V2 script has written both names.
C6_Witness ==
    /\ variant = "v2" /\ op = "start" /\ h.wrote = Names
    /\ h.spawned["backend"] # h.spawned["frontend"]
    /\ \A n \in Names : Registry(n) = h.spawned[n]

\* C7: when a start() returns, the registry holds no PID that this start()
\* probed and found dead: the entry of a name found stale is gone or is the
\* PID this start() spawned for the name.
C7_NoStaleEntryAtReturn ==
    (variant \in Scripts /\ Ended("start")) =>
        \A n \in h.stale : Registry(n) = NoPid \/ Registry(n) = h.spawned[n]

V2StartGoesOn ==
    (variant = "v2" /\ op = "start") =>
        /\ pc # "failed"
        /\ pc = "done" =>
              /\ exit = 0
              /\ ~args.flask_only => h.outcome["frontend"] # "none"

C10_NoManifestNoFrontend ==
    (variant \in Scripts /\ op = "start" /\ h.manifest = "absent") =>
        /\ h.spawned["frontend"] = NoPid
        /\ ~h.installRan
        /\ "frontend" \notin h.wrote
        /\ pc # "failed"
        /\ pc = "done" =>
              /\ exit = 0
              /\ ~args.vite_only => h.outcome["backend"] \in {"spawned", "existing"}

\* C10 happens: start() returned 0 with the backend spawned and no manifest.
C10_Witness ==
    /\ Ended("start") /\ h.manifest = "absent"
    /\ h.outcome["backend"] = "spawned" /\ exit = 0

\* Inside an explicit start() call: a start run that has not yet returned to
\* its caller (FlaskViteBootloader.deploy has returned when main sleeps).
InStartCall == op = "start" /\ pc \notin Rest \cup {"fvb_serving", "fvb_stop"}

\* Inside an explicit stop() call.
InStopCall == (op = "stop" /\ pc \notin Rest) \/ pc = "fvb_stop"

Increasing(seq) == \A i, j \in 1..Len(seq) : i < j => seq[i] < seq[j]

\* The deploy.py run has ended.
DeployEnded == dpc \in {"done", "failed"}

\* C12: the steps of deploy.py start in the order 1, 2, 3, each at most
\* once, Step 1 first, and a step starts only when every step started before
\* has returned; when Step 1 fails no later step starts, completion is not
\* reported and the run ends with a non-zero exit code.
C12_StepsInOrder ==
    /\ Increasing(dh.started)
    /\ dh.started # <<>> => dh.started[1] = 1
    /\ Len(dh.returned) <= Len(dh.started)
    /\ dh.returned = SubSeq(dh.started, 1, Len(dh.returned))
    /\ Len(dh.started) <= Len(dh.returned) + 1
    /\ 1 \in dh.failed => /\ dh.started = <<1>>
                          /\ ~dh.complete
                          /\ dpc = "failed"
                          /\ dexit # 0

\* A run in which all three steps ran, one after the other.
C12_Witness ==
    dpc = "done" /\ dh.started = <<1, 2, 3>> /\ dh.returned = <<1, 2, 3>>

\* C13: when Step 2 or Step 3 fails (no user interrupt of deploy.py), a
\* warning is printed for the step, the run is not aborted, Step 3 is still
\* started when it is present and not skipped, and the run ends with
\* "DEPLOYMENT COMPLETE" and exit code 0.
C13_SoftFailureContinues ==
    /\ \A s \in dh.failed \ {1} : s \in dh.warned
    /\ (dh.failed \cap {2, 3} # {} /\ dh.cause # "interrupt") => dpc # "failed"
    /\ (dh.failed \cap {2, 3} # {} /\ dpc = "done") =>
          /\ dexit = 0
          /\ dh.complete
          /\ (~dargs.skip_frontend /\ dargs.step3_present) => 3 \in Range(dh.started)

\* Both soft steps failed and the run completed.
C13_Witness ==
    dpc = "done" /\ dh.failed = {2, 3} /\ dh.warned = {2, 3} /\ dexit = 0

\* The hard failures of the installer.
HardCauses == {"venv", "install", "verify"}

\* C14: when the installer run as Step 2 ended in a hard failure
\* (environment creation, installation or import verification failed),
\* deploy.py starts no later step, does not report completion and ends with
\* a non-zero exit code.
C14_InstallerFailureAborts ==
    dh.installer \in HardCauses =>
        /\ 3 \notin Range(dh.started)
        /\ ~dh.complete
        /\ dpc # "done"

\* C15: in each program, the exit code of a run ended by a user interrupt
\* differs from the exit code of every run ended by another failure.
C15_InterruptCodeDistinct ==
    \A a \in codes, b \in codes :
        (a[1] = b[1] /\ a[2] = "interrupt" /\ b[2] = "failure") => a[3] # b[3]

\* C16: every stream captured from a step whose subprocess failed has been
\* written to the log.
C16_FailedStepOutputLogged ==
    \A s \in dh.failed : \A stream \in dh.captured[s] : <<s, stream>> \in dh.logged

\* C17: an installer run called when the interpreter path exists runs no
\* environment-creation command.
C17_NoCreationWhenPresent ==
    ih.venvAtCall => \A i \in 1..Len(ih.cmds) : ih.cmds[i] \notin CreateCmds

\* C18: uv is tried first when it is present, and the installer fails for
\* environment creation only when the built-in "python -m venv" has been
\* tried as well.
C18_CreationFallbackChain ==
    /\ (uv /\ ih.cmds # <<>>) => ih.cmds[1] = "uv venv"
    /\ (~uv /\ ih.cmds # <<>>) => ih.cmds[1] = "python -m venv"
    /\ ih.cause = "venv" => "python -m venv" \in Range(ih.cmds)

\* C19: when pip is still unavailable after ensurepip, the installer goes on
\* to the install step.
C19_PipBootstrapSoft ==
    ih.nopip => (ipc = "install" \/ "pip install -U pip" \in Range(ih.cmds))

\* The names of MUST_HAVE.
MustHaveNames == {MUST_HAVE[i][1] : i \in 1..Len(MUST_HAVE)}

\* A file has a requirement line for the project name: a line that is neither
\* blank nor a comment and starts with the name, in any case.
Occurs(name, f) ==
    \E i \in 1..Len(f.lines) :
        ReqLine(f.lines[i]) /\ LowerWord(Head(Strip(f.lines[i]))) = name

\* The installer run has passed write_requirements.
Reconciled ==
    ipc \in {"create_venv", "ensure_pip", "install", "verify"}
    \/ (ipc = "exited" /\ ih.cmds # <<>>)

\* C20: after write_requirements the file exists and has a requirement line
\* for every must-have name; a file that was absent holds every must-have
\* entry; of a file that existed every line is where it was, unchanged.
C20_RequirementsUnionMerge ==
    Reconciled =>
        /\ reqs.exists
        /\ \A name \in MustHaveNames : Occurs(name, reqs)
        /\ ~ih.before.exists => \A i \in 1..Len(MUST_HAVE) :
                                   MUST_HAVE[i][2] \in Range(reqs.lines)
        /\ ih.before.exists =>
              /\ Len(ih.before.lines) <= Len(reqs.lines)
              /\ SubSeq(reqs.lines, 1, Len(ih.before.lines)) = ih.before.lines

\* A file of two lines that names flask and not click has been extended.
C20_Witness ==
    /\ Reconciled
    /\ Len(ih.before.lines) = MaxReqLines
    /\ Occurs("flask", ih.before)
    /\ ~Occurs("click", ih.before)
    /\ Len(reqs.lines) > Len(ih.before.lines)

\* The lines write_requirements has added after the lines the file had.
Appended == SubSeq(reqs.lines, Len(ih.before.lines) + 1, Len(reqs.lines))

\* C21: write_requirements appends the entry of a must-have package if and
\* only if no requirement line of the file names that package, whichever
\* version operator or blank follows the name; a declared package is never
\* added a second time.
C21_AppendedIffUndeclared ==
    Reconciled =>
        \A i \in 1..Len(MUST_HAVE) :
            MUST_HAVE[i][2] \in Range(Appended) <=> ~Occurs(MUST_HAVE[i][1], ih.before)

\* C22: no step removes or replaces an entry of a dependency declaration
\* file: every requirement line of requirements.txt and every dependency of
\* pyproject.toml is still in the file after the step.
C22_DeclarationsOnlyGrow ==
    [][/\ \A i \in 1..Len(reqs.lines) :
             ReqLine(reqs.lines[i]) => reqs.lines[i] \in Range(reqs'.lines)
       /\ Range(pyproject.dependencies) \subseteq Range(pyproject'.dependencies)]_vars

\* The commands that install from the dependency file.
InstallFromFile == {"uv pip install -r", "pip install -r"}

\* C23: an installer run that has passed the install step has run an
\* install-from-file command on requirements.txt, and with uv on the PATH it
\* has run uv's install-from-file command.
C23_InstallFromFileFallback ==
    ipc = "verify" =>
        /\ \E i \in 1..Len(ih.cmds) : ih.cmds[i] \in InstallFromFile
        /\ uv => "uv pip install -r" \in Range(ih.cmds)

\* The installer run has ended after a probe that ran to its end.
Verified == ipc = "exited" /\ ih.cmds # <<>> /\ ih.cmds[Len(ih.cmds)] = "verify"

\* C24: the probe of verify_stack reports every must-have package that fails
\* to import, all of them in one list, and the installer returns 0 only when
\* every must-have package imports.
C24_VerifyProbesAllMustHaves ==
    Verified =>
        /\ (ih.cause = "none" \/ ih.missing # <<>>) => Range(ih.missing) = ih.broken
        /\ irc = 0 => ih.broken = {}

\* The dependency known to lack prebuilt binaries on some interpreters.
Remediable == "markupsafe"

\* C25: when the probe reports exactly the known remediable module missing,
\* the installer has retried it, the binary-only tier first.
C25_RemediationTiers ==
    (Verified /\ ih.missing = <<Remediable>>) =>
        /\ "pip install --only-binary" \in Range(ih.cmds)
        /\ \A i, j \in 1..Len(ih.cmds) :
              (ih.cmds[i] = "pip install --only-binary --pre"
               /\ ih.cmds[j] = "pip install --only-binary") => j < i

\* C26: a run of the folder scaffold on a root where a run has completed
\* creates no directory and no file, and leaves every file as it was.
C26_ScaffoldIdempotent ==
    /\ [](fh.runs = "more" => fh.wrote = NoFolderHistory.wrote)
    /\ [][(fh.runs # "none" /\ fh' # fh) =>
            (tree' = tree /\ dirs' = dirs /\ reqs' = reqs)]_vars

\* The scaffold has run twice, on a root where Step 2 has replaced the
\* scripts in between.
C26_Witness ==
    /\ fh.runs = "more"
    /\ fh.wrote = NoFolderHistory.wrote
    /\ tree[<<"docs", "README.md">>] = "folder"
    /\ tree[StartPy] = "v2"

\* C27: no step changes the content of a scaffold file that exists.
C27_NoOverwrite ==
    [][\A p \in ScaffoldPaths : tree[p] # "absent" => tree'[p] = tree[p]]_vars

\* C28: the lists the folder scaffold returns are exactly the paths the run
\* created, and they are empty on a repeat run.
C28_ReturnsWhatItCreated ==
    fh.runs # "none" =>
        /\ Range(fh.ret.folders) = fh.wrote.folders
        /\ Range(fh.ret.files) = fh.wrote.files
        /\ Range(fh.ret.scripts) = fh.wrote.scripts
        /\ fh.runs = "more" => fh.ret = NoFolderHistory.ret

\* The three resolvers have run.
Resolved == \A st \in {"folder", "env", "vite"} : roots[st] # <<"?">>

\* The handle, as written and as a directory, has at least four ancestors.
FourAncestors == core_dir.set /\ Len(core_dir.segs) >= 4 /\ Len(Resolve(core_dir, cwd)) >= 4

\* C29: for a handle with at least four ancestor segments every resolver
\* returns the fourth ancestor of the handle: the three steps work on the
\* same root.
C29_FourthAncestor ==
    (Resolved /\ FourAncestors) =>
        \A st \in {"folder", "env", "vite"} :
            roots[st] = SubSeq(Resolve(core_dir, cwd), 1, Len(Resolve(core_dir, cwd)) - 4)

\* C30: when the handle is not set or has fewer than four ancestor segments,
\* every resolver returns the current directory.
C30_FallbackToCwd ==
    (Resolved /\ (~core_dir.set \/ Len(core_dir.segs) < 4)) =>
        \A st \in {"folder", "env", "vite"} : roots[st] = cwd

\* The positions of the frontend startup step of the start scripts that
\* manage both processes.
FrontendStartup == {"v2_vite", "v2_vite_npm", "v2_vite_popen", "cb_vite", "cb_vite_popen"}

\* C31: in a start script that manages both processes, a start() run that
\* has handled the backend has polled the backend health endpoint when it
\* begins the frontend startup step.
C31_PollBetweenBackendAndFrontend ==
    (variant \in {"v2", "combined"} /\ op = "start" /\ pc \in FrontendStartup
        /\ h.outcome["backend"] # "none") => h.polled

\* C32: a start() run that reads back the output of a child it spawned
\* leaves the read-back loop, whatever the child does.
C32_StartReturns == (op = "start" /\ pc \in ReadLoops) ~> (pc \notin ReadLoops)

\* The live processes spawned for name n.
Live(n) == {p \in PIDs : proc[p] = n}

InstalledRegistry(n) ==
    IF tree[StartPy] = "v2"
    THEN (IF pidsJson.exists THEN DictGet(Loads(pidsJson.text), Key(n)) ELSE NoPid)
    ELSE IF tree[StartPy] = "combined" THEN ReadFile(runDir[n])
    ELSE IF tree[StartPy] = "unified" THEN ReadFile(pidDir[n])
    ELSE NoPid

\* C34: between the runs of the steps and of the scripts, every live process
\* spawned for a name is the one recorded for that name where the installed
\* scripts look.
C34_LiveProcessesRecorded ==
    (pc = "idle" /\ ipc = "idle") =>
        \A n \in Names : \A p \in Live(n) : InstalledRegistry(n) = p

\* The invocations that spawned a process for name n.
SpawnedBy(n) == {i \in Invocations : inv[i].spawned[n] # NoPid}

\* Both invocations are start() calls (or have not begun).
OnlyStarts == \A i \in Invocations : inv[i].op # "stop"

\* No invocation is running.
AtRest == \A i \in Invocations : ~CoBusy(i)

\* The processes alive among those the invocations spawned for name n.
LiveSpawned(n) == {inv[i].spawned[n] : i \in SpawnedBy(n)} \cap Live(n)

\* C35: for every interleaving of two start() invocations no process is
\* spawned twice for a logical name: at most one spawned for it is alive.
C35_NoDoubleSpawnEver ==
    OnlyStarts => \A n \in Names : Cardinality(LiveSpawned(n)) <= 1

\* C35, amended: when the two start() invocations do not overlap, no process
\* is spawned twice for a logical name.
C35_NoDoubleSpawnInTurn ==
    (OnlyStarts /\ ~overlap) => \A n \in Names : Cardinality(LiveSpawned(n)) <= 1

\* Two start() calls, one after the other, both handled the backend and the
\* second found the backend of the first.
C35_Witness ==
    /\ ~overlap
    /\ \A i \in Invocations : inv[i].pc = "done" /\ inv[i].op = "start" /\ ~inv[i].vite_only
    /\ Cardinality(SpawnedBy("backend")) = 1
    /\ LiveSpawned("backend") # {}

\* Every live process an invocation spawned is the one the registry names.
Registered ==
    \A i \in Invocations, n \in Names :
        (inv[i].spawned[n] # NoPid /\ proc[inv[i].spawned[n]] = n)
            => Registry(n) = inv[i].spawned[n]

\* A start() and a stop(), or two writers of different logical names.
TwoWriters ==
    \/ \E i, j \in Invocations : inv[i].op = "start" /\ inv[j].op = "stop"
    \/ \E i, j \in Invocations :
          /\ inv[i].op = "start" /\ inv[i].flask_only /\ ~inv[i].vite_only
          /\ inv[j].op = "start" /\ inv[j].vite_only /\ ~inv[j].flask_only

\* C36: for every interleaving of a start() and a stop(), or of two writers
\* of different logical names, no registry update is lost: afterwards every
\* live process spawned by start() has its registry entry.
C36_NoLostUpdateEver == (TwoWriters /\ AtRest) => Registered

\* C36, amended: when the invocations do not overlap, no registry update is
\* lost.
C36_NoLostUpdateInTurn == (~overlap /\ AtRest) => Registered

\* Two writers of different names, one after the other, both processes alive.
C36_Witness ==
    /\ ~overlap /\ AtRest
    /\ \E i, j \in Invocations :
          /\ i # j
          /\ inv[i].spawned["backend"] # NoPid /\ proc[inv[i].spawned["backend"]] = "backend"
          /\ inv[j].spawned["frontend"] # NoPid
          /\ proc[inv[j].spawned["frontend"]] = "frontend"

C37_TableEmptyNothingLate == monitor.returned => (fvbProcesses = <<>> /\ ~monitor.late)

\* The first part of C37 for the processes stop() had a handle of.
C37_HandlesTerminated == monitor.returned => \A p \in PIDs : proc[p] # "frontend"

\* C38: install_requirements has returned 0 only if an install-from-file
\* command was run on the requirements file and exited 0, and only if no
\* install command it ran exited non-zero, with or without uv.
C38_ZeroOnlyAfterInstallFromFile ==
    ipc = "verify" =>
        /\ \E i \in 1..Len(ih.exits) :
              ih.exits[i][1] \in InstallFromFile /\ ih.exits[i][2] = 0
        /\ \A i \in 1..Len(ih.exits) : ih.exits[i][2] = 0

\* C38 on a host without uv.
C38_ZeroOnlyAfterPipInstallFromFile == ~uv => C38_ZeroOnlyAfterInstallFromFile

\* The constructor has ended, by returning or by an exception.
BootEnded == boot.pc \in {"constructed", "raised"}

\* The configuration file the constructor was given.
Given == configs[boot.path]

\* C39: a constructor given a config file that is absent or holds invalid
\* JSON does not fail: it logs and goes on with the default configuration,
\* in FolderBootloader and PillarBootloader alike.
C39_DefaultsWhenConfigUnusable ==
    (BootEnded /\ (~Given.exists \/ ~Given.json)) =>
        /\ boot.pc = "constructed"
        /\ boot.config = "default"
        /\ boot.log # {}

\* C39 for FolderBootloader and a file that is absent or is text that does
\* not parse.
C39_FolderDefaults ==
    (BootEnded /\ boot.loader = "folder" /\ (~Given.exists \/ (Given.utf8 /\ ~Given.json))) =>
        /\ boot.pc = "constructed"
        /\ boot.config = "default"
        /\ boot.log # {}

=============================================================================
